---- MODULE Spec2Model ----
(***************************************************************************)
(* Entropy-coded predictive codecs: the Golomb coder class, the bit        *)
(* writer/reader, the lossless audio codecs (block codec and the           *)
(* predictor + mid/side codec) and the lossless image codec.               *)
(*                                                                         *)
(* Each subsystem has its own specification (SpecGolomb, SpecMap, ...);    *)
(* the variables of the other subsystems stay at their idle values.        *)
(*                                                                         *)
(* Machine integers.  The model checker's integers are 32-bit signed, so a *)
(* uint32_t value u is held as u when u < 2^31 and as u - 2^32 (the int32  *)
(* with the same bits) otherwise.  All values the codecs handle inside the *)
(* bounds below are < 2^31, where the two readings agree.                  *)
(***************************************************************************)
EXTENDS Integers, Sequences, FiniteSets, TLC

VARIABLES
    golomb,     \* the Golomb object: its fields m, b, mode (or no object yet)
    gword,      \* the caller's vector returned by the last encode(), with the
                \* parameters it was encoded under
    gres,       \* outcome of the last call on the Golomb object
    zmap,       \* the signed<->unsigned mapping functions under test
    bw,         \* BitWriter: bytes, cur, bitPos
    br,         \* BitReader: data, bytePos, bitPos
    blog,       \* the (value, width) fields written so far
    bgot,       \* what each readBits call returned, in order
    ms,         \* one stereo frame through the mid/side transform and back
    aud,        \* lossless_audio: the input wav, the call parameters, the
                \* encoded file and the decoded wav
    cdc,        \* lossless_codec (block codec): input wav, parameters, encoded
                \* file and decoded wav
    img,        \* lossless_image: input image, parameters, encoded file and
                \* decoded image
    prd,        \* one call of computePrediction: order, history, result
    sel,        \* encodeImage with autoSelectPredictor: the trial loop of
                \* findBestPredictor, the temp files and the final file
    lsy,        \* lossy codec: one quantized coefficient, its field in the
                \* stream and what the decoder read back
    dec         \* decodeImage on an arbitrary stream, pass by pass of its
                \* block loop: pc, header, blockStart, read position

vars == <<golomb, gword, gres, zmap, bw, br, blog, bgot, ms, aud, cdc, img, prd, sel, lsy, dec>>
golombVars == <<golomb, gword, gres>>
bitVars == <<bw, br, blog, bgot>>
codecVars == <<ms, aud, cdc, img>>
unitVars == <<prd, sel, lsy, dec>>

----------------------------------------------------------------------------
(* Bounds of the model *)

\* Golomb parameters tried: 0..MaxM, and the 16-bit extremes
MaxM == 5
\* integers encoded: -MaxN..MaxN
MaxN == 6
\* bit writer: at most MaxFields fields of 1..MaxWidth bits each
MaxFields == 3
MaxWidth == 5
\* mid/side: samples within MaxOff of -32768, 0 and 32767
MaxOff == 2
\* wav inputs: at most MaxFrames frames and MaxSamples samples in all
MaxFrames == 3
MaxSamples == 4
\* block lengths 1..MaxBlock (and the self-test's 4096)
MaxBlock == 2
\* images: width at most MaxW, height at most MaxH, at most MaxPixels pixels
MaxW == 2
MaxH == 2
MaxPixels == 4
MaxPayload == 8

----------------------------------------------------------------------------
(* Machine arithmetic *)

Int32Max == 2^30 + (2^30 - 1)
Int32Min == -Int32Max - 1
Pow30 == 2^30

Abs(x) == IF x < 0 THEN -x ELSE x
Min(a, b) == IF a < b THEN a ELSE b
Max(a, b) == IF a > b THEN a ELSE b

\* what a build does on signed overflow (undefined behaviour): the
\* two's-complement result, or a trap
UBOutcomes == {"wrap", "trap"}

\* 2 * n in int32_t, two's-complement result
Mul2Wrap(n) ==
    IF n >= Pow30 THEN 2 * (n - Pow30) + Int32Min
    ELSE IF n < -Pow30 THEN (2 * (n + Pow30) + Int32Max) + 1
    ELSE 2 * n

\* -n in int32_t, two's-complement result
NegWrap(n) == IF n = Int32Min THEN Int32Min ELSE -n

\* u + 1, u - 1, u >> 1, u << 1 in uint32_t (u held as the int32 with its bits)
U32Add1(u) == IF u = Int32Max THEN Int32Min ELSE u + 1
U32Sub1(u) == IF u = Int32Min THEN Int32Max ELSE u - 1
U32Shr1(u) == IF u >= 0 THEN u \div 2 ELSE ((u \div 2) + Int32Max) + 1
U32Shl1(u) == Mul2Wrap(u)
U32Odd(u) == u % 2 = 1

\* the k low bits of v, most significant first (no bits when k <= 0)
\* (bit positions 31 and up of a value below 2^31 are 0)
BitsOf(v, k) == [i \in 1..k |-> IF k - i >= 31 THEN 0 ELSE (v \div 2^(k - i)) % 2]

\* value of a bit sequence read most significant first: the value of its
\* first half shifted over the second half, plus the value of the second half
RECURSIVE BitsValue(_)
BitsValue(s) ==
    IF Len(s) = 0 THEN 0
    ELSE IF Len(s) = 1 THEN s[1]
    ELSE CHOOSE v \in {IF hi = 0 THEN lo ELSE hi * 2^(Len(s) - Len(s) \div 2) + lo :
                          hi \in {BitsValue(a) : a \in {SubSeq(s, 1, Len(s) \div 2)}},
                          lo \in {BitsValue(b) : b \in {SubSeq(s, Len(s) \div 2 + 1, Len(s))}}} :
                  TRUE

Zeros(q) == [i \in 1..q |-> 0]

\* number of consecutive 0 bits of s starting at 0-based position pos: up to
\* the first bit that is not 0, or to the end of s when there is none
ZeroRun(s, pos) ==
    IF \A i \in (pos + 1)..Len(s) : s[i] = 0 THEN Max(0, Len(s) - pos)
    ELSE (CHOOSE i \in (pos + 1)..Len(s) :
              s[i] # 0 /\ \A j \in (pos + 1)..(i - 1) : s[j] = 0) - (pos + 1)

\* static_cast<uint32_t>(std::ceil(std::log2(double(m)))) for m >= 1:
\* the least b with 2^b >= m (log2 is exact on powers of two)
RECURSIVE CeilLog2From(_, _)
CeilLog2From(m, b) == IF 2^b >= m THEN b ELSE CeilLog2From(m, b + 1)
CeilLog2(m) == CeilLog2From(m, 0)

----------------------------------------------------------------------------
(* Values before anything has run; a specification leaves the subsystems it
   does not exercise at these *)

SIGN_MAGNITUDE == "SIGN_MAGNITUDE"
INTERLEAVING == "INTERLEAVING"
NegativeMode == {SIGN_MAGNITUDE, INTERLEAVING}

NoObject == [constructed |-> FALSE, m |-> 0, b |-> 0, mode |-> INTERLEAVING]
NoWord == [n |-> 0, bits |-> <<>>, m |-> 0, b |-> 0, mode |-> INTERLEAVING]
NoResult == [op |-> "none", exc |-> "none", what |-> "", value |-> 0,
             bitsUsed |-> 0, arg |-> 0, tail |-> <<>>]
NoMap == [impl |-> "none", n |-> 0, u |-> 0, back |-> 0, trapped |-> FALSE]
NewWriter == [bytes |-> <<>>, cur |-> 0, bitPos |-> 0]
NoReader == [data |-> <<>>, bytePos |-> 0, bitPos |-> 0, isSet |-> FALSE]

IdleGolomb == golomb = NoObject /\ gword = NoWord /\ gres = NoResult
IdleMap == zmap = NoMap
IdleBits == bw = NewWriter /\ br = NoReader /\ blog = <<>> /\ bgot = <<>>

NoFrame == [stage |-> "none", L |-> 0, R |-> 0, mid |-> 0, side |-> 0, L2 |-> 0, R2 |-> 0]
NoWav == [samplerate |-> 0, channels |-> 0, samples |-> <<>>]

\* a file on disk, held as head, then zeros 0 bits, then tail (a long run of
\* zero bits is kept as its length)
NoFile == [head |-> <<>>, zeros |-> 0, tail |-> <<>>]
FileOf(bits) == [head |-> bits, zeros |-> 0, tail |-> <<>>]
FileBits(f) == f.head \o Zeros(f.zeros) \o f.tail

NoAudio == [stage |-> "none", wav |-> NoWav, m |-> 0, blockSamples |-> 0, order |-> 0,
            file |-> NoFile, ret |-> FALSE, out |-> NoWav, oob |-> FALSE,
            encBlocks |-> <<>>, decBlocks |-> <<>>, end |-> "none"]
NoBlockFile == [hdr |-> [magic |-> 0, sampleRate |-> 0, channels |-> 0, frames |-> 0,
                        blockSamples |-> 0],
                blocks |-> <<>>]
NoCodec == [stage |-> "none", wav |-> NoWav, m |-> 0, blockSamples |-> 0,
            file |-> NoBlockFile, ret |-> FALSE, out |-> NoWav]
NoPicture == [width |-> 0, height |-> 0, pixels |-> <<>>]
NoImage == [stage |-> "none", image |-> NoPicture, predictor |-> 0, m |-> 0, blockSize |-> 0,
            file |-> NoFile, ret |-> FALSE, out |-> NoPicture, fields |-> 0,
            created |-> FALSE, consumed |-> 0, encM |-> <<>>, encRes |-> <<>>,
            decM |-> <<>>, encStart |-> <<>>, decBlocks |-> <<>>]
IdleMidSide == ms = NoFrame
IdleAudio == aud = NoAudio
IdleCodec == cdc = NoCodec
IdleImage == img = NoImage
IdleCodecs == IdleMidSide /\ IdleAudio /\ IdleCodec /\ IdleImage

NoCall == [stage |-> "none", order |-> 0, history |-> <<0, 0, 0>>, sum |-> 0, pred |-> 0]
\* lines 131-132: bestPredictor and bestSize before the first trial
SIZE_MAX == 2147483647
NoSelect == [stage |-> "none", image |-> NoPicture, m |-> 0, blockSize |-> 0, p |-> 0,
             bestPredictor |-> 8, bestSize |-> SIZE_MAX, sizes |-> <<>>,
             temps |-> {}, created |-> {}, ret |-> FALSE, file |-> NoFile]
NoField == [stage |-> "none", coeff |-> 0, rest |-> <<>>, stream |-> <<>>, written |-> 0,
            eof |-> FALSE, got |-> 0, consumed |-> 0]
NoDecode == [pc |-> "none", bits |-> <<>>, width |-> 0, height |-> 0, predictor |-> 0,
             mFlag |-> 0, blockSize |-> 0, blockStart |-> 0, pos |-> 0,
             pixels |-> <<>>, ret |-> FALSE]
IdleUnits == prd = NoCall /\ sel = NoSelect /\ lsy = NoField /\ dec = NoDecode

----------------------------------------------------------------------------
(* Golomb class (golomb.cpp) *)

\* Golomb::calculateB: b = ceil(log2(m))
calculateB(m) == CeilLog2(m)

\* Golomb::mapToUnsigned overflows int32_t (undefined behaviour) on these n
MapToUnsignedOverflows(mode, n) ==
    IF mode = SIGN_MAGNITUDE THEN n = Int32Min
    ELSE n >= Pow30 \/ n <= -Pow30

\* mutant: the interleaving order of the comment in golomb.cpp (1 -> 1, -1 -> 2)
mapToUnsigned_Swapped(mode, n) ==
    IF mode = SIGN_MAGNITUDE THEN (IF n < 0 THEN NegWrap(n) ELSE n)
    ELSE IF n > 0 THEN U32Sub1(Mul2Wrap(n))
    ELSE Mul2Wrap(NegWrap(n))

\* Golomb::mapToUnsigned, with the two's-complement result where it overflows
mapToUnsigned(mode, n) ==
    IF mode = SIGN_MAGNITUDE THEN (IF n < 0 THEN NegWrap(n) ELSE n)
    ELSE IF n >= 0 THEN Mul2Wrap(n)
    ELSE U32Sub1(Mul2Wrap(NegWrap(n)))

\* Golomb::mapToSigned
mapToSigned(mode, u) ==
    IF mode = SIGN_MAGNITUDE THEN u
    ELSE IF ~U32Odd(u) THEN U32Shr1(u)
    ELSE NegWrap(U32Shr1(U32Add1(u)))

\* Golomb::encode, for n whose mapped value is below 2^31
\* mutant: the remainder is always written in b bits
GolombEncode_FullWidth(m, b, mode, n) ==
    (IF mode = SIGN_MAGNITUDE THEN <<IF n < 0 THEN 1 ELSE 0>> ELSE <<>>)
        \o Zeros(mapToUnsigned(mode, n) \div m) \o <<1>>
        \o BitsOf(mapToUnsigned(mode, n) % m, b)

\* Golomb::encode(n)
GolombEncode(m, b, mode, n) ==
    LET sign == IF mode = SIGN_MAGNITUDE THEN <<IF n < 0 THEN 1 ELSE 0>> ELSE <<>>
        mapped == mapToUnsigned(mode, n)
        q == mapped \div m
        r == mapped % m
        cutoff == 2^b - m
        rem == IF r < cutoff THEN BitsOf(r, b - 1) ELSE BitsOf(r + cutoff, b)
    IN  sign \o Zeros(q) \o <<1>> \o rem

Thrown(what) == [exc |-> "invalid_argument", what |-> what, value |-> 0, bitsUsed |-> 0]
Returned(v, used) == [exc |-> "none", what |-> "", value |-> v, bitsUsed |-> used]

\* "pos + (b - 1) > bits.size()" with b - 1 computed in uint32_t and widened to
\* size_t: for b = 0 it is pos + (2^32 - 1) > size, i.e. size - pos <= 2^32 - 2
RemainderShort(pos, b, size) ==
    IF b = 0 THEN (size - pos) \div 2 <= Int32Max
    ELSE pos + (b - 1) > size

\* Golomb::decode(bits, bitsUsed)
GolombDecode(m, b, mode, bits) ==
    IF Len(bits) = 0 THEN Thrown("Bit sequence is empty")
    ELSE
    LET size == Len(bits)
        pos0 == IF mode = SIGN_MAGNITUDE THEN 1 ELSE 0
        isNegative == mode = SIGN_MAGNITUDE /\ bits[1] = 1
        q == ZeroRun(bits, pos0)
        pos1 == pos0 + q
        pos2 == pos1 + 1
        cutoff == 2^b - m
        r1 == BitsValue(SubSeq(bits, pos2 + 1, pos2 + (b - 1)))
        pos3 == pos2 + (b - 1)
        r == IF r1 < cutoff THEN r1 ELSE 2 * r1 + bits[pos3 + 1] - cutoff
        pos4 == IF r1 < cutoff THEN pos3 ELSE pos3 + 1
        mapped == q * m + r
        result == IF mode = SIGN_MAGNITUDE
                  THEN (IF isNegative THEN -mapped ELSE mapped)
                  ELSE mapToSigned(mode, mapped)
    IN  IF pos1 >= size THEN Thrown("Insufficient bits for quotient terminator")
        ELSE IF RemainderShort(pos2, b, size) THEN Thrown("Insufficient bits for remainder")
        ELSE IF r1 >= cutoff /\ pos3 >= size
             THEN Thrown("Insufficient bits for remainder (extended)")
        ELSE Returned(result, pos4)

\* parameters the callers pass for m
MValues == (0..MaxM) \cup {2^15, 2^16 - 1}
NValues == (-MaxN)..MaxN
\* bits that follow the codeword in the vector handed to decode
Tails == {<<>>, <<1>>, <<0, 1>>}

\* Golomb::Golomb(m, mode)
Construct(m, mode) ==
    /\ ~golomb.constructed
    /\ IF m = 0
       THEN /\ golomb' = golomb
            /\ gres' = [NoResult EXCEPT !.op = "construct", !.exc = "invalid_argument",
                          !.what = "Golomb parameter m must be greater than 0", !.arg = m]
       ELSE /\ golomb' = [constructed |-> TRUE, m |-> m, b |-> calculateB(m), mode |-> mode]
            /\ gres' = [NoResult EXCEPT !.op = "construct", !.arg = m]
    /\ UNCHANGED <<gword, zmap, bitVars, codecVars, unitVars>>

\* mutant: the field is assigned before the argument is checked
SetM_AssignFirst(m) ==
    /\ golomb.constructed
    /\ golomb' = [golomb EXCEPT !.m = m, !.b = IF m = 0 THEN 0 ELSE calculateB(m)]
    /\ gres' = IF m = 0
               THEN [NoResult EXCEPT !.op = "setM", !.exc = "invalid_argument",
                       !.what = "Golomb parameter m must be greater than 0", !.arg = m]
               ELSE [NoResult EXCEPT !.op = "setM", !.arg = m]
    /\ UNCHANGED <<gword, zmap, bitVars, codecVars, unitVars>>

\* Golomb::setM(m)
SetM(m) ==
    /\ golomb.constructed
    /\ IF m = 0
       THEN /\ golomb' = golomb
            /\ gres' = [NoResult EXCEPT !.op = "setM", !.exc = "invalid_argument",
                          !.what = "Golomb parameter m must be greater than 0", !.arg = m]
       ELSE /\ golomb' = [golomb EXCEPT !.m = m, !.b = calculateB(m)]
            /\ gres' = [NoResult EXCEPT !.op = "setM", !.arg = m]
    /\ UNCHANGED <<gword, zmap, bitVars, codecVars, unitVars>>

\* Golomb::setMode(mode)
SetMode(mode) ==
    /\ golomb.constructed
    /\ golomb' = [golomb EXCEPT !.mode = mode]
    /\ gres' = [NoResult EXCEPT !.op = "setMode"]
    /\ UNCHANGED <<gword, zmap, bitVars, codecVars, unitVars>>

\* Golomb::encode(n)
Encode(n) ==
    /\ golomb.constructed
    /\ gword' = [n |-> n, bits |-> GolombEncode(golomb.m, golomb.b, golomb.mode, n),
                 m |-> golomb.m, b |-> golomb.b, mode |-> golomb.mode]
    /\ gres' = [NoResult EXCEPT !.op = "encode", !.arg = n]
    /\ UNCHANGED <<golomb, zmap, bitVars, codecVars, unitVars>>

\* Golomb::decode(bits, bitsUsed) on the last codeword followed by more bits
Decode(tail) ==
    /\ golomb.constructed
    /\ gword.m # 0
    /\ LET d == GolombDecode(golomb.m, golomb.b, golomb.mode, gword.bits \o tail)
       IN  gres' = [op |-> "decode", exc |-> d.exc, what |-> d.what, value |-> d.value,
                    bitsUsed |-> d.bitsUsed, arg |-> 0, tail |-> tail]
    /\ UNCHANGED <<golomb, gword, zmap, bitVars, codecVars, unitVars>>

InitGolomb == IdleGolomb /\ IdleMap /\ IdleBits /\ IdleUnits /\ IdleCodecs

NextGolomb ==
    \/ \E m \in MValues, mode \in NegativeMode : Construct(m, mode)
    \/ \E m \in MValues : SetM(m)
    \/ \E mode \in NegativeMode : SetMode(mode)
    \/ \E n \in NValues : Encode(n)
    \/ \E tail \in Tails : Decode(tail)

SpecGolomb == InitGolomb /\ [][NextGolomb]_vars

----------------------------------------------------------------------------
(* Signed <-> unsigned mapping functions, applied forward and back *)

\* inline mapping of the codecs: lossless_audio.cpp 188-189, lossless_image.cpp
\* 342-343, lossless_codec.cpp mapSignedToUnsigned; -resid overflows on INT32_MIN
InlineOverflows(resid) == resid = Int32Min
InlineMapToUnsigned(resid) ==
    IF resid >= 0 THEN U32Shl1(resid) ELSE U32Sub1(U32Shl1(NegWrap(resid)))

\* inline inverse: lossless_audio.cpp 338-339, lossless_image.cpp 512-513,
\* lossless_codec.cpp mapUnsignedToSigned
InlineMapToSigned(mapped) ==
    IF U32Odd(mapped) THEN NegWrap(U32Shr1(U32Add1(mapped))) ELSE U32Shr1(mapped)

\* small values and the values around the int32 limits and around +-2^30
MapInputs == NValues \cup UNION {{Int32Min + k, Int32Max - k, Pow30 + k, Pow30 - 1 - k,
                                   -Pow30 - k, -Pow30 + 1 + k} : k \in 0..MaxN}

InitMap ==
    /\ IdleGolomb
    /\ IdleBits /\ IdleUnits
    /\ IdleCodecs
    /\ \E n \in MapInputs :
         zmap = [NoMap EXCEPT !.n = n]

\* mapToSigned(mapToUnsigned(n)) of a Golomb object in INTERLEAVING mode
GolombMapRoundTrip(ub) ==
    /\ zmap.impl = "none"
    /\ ub = "trap" => MapToUnsignedOverflows(INTERLEAVING, zmap.n)
    /\ zmap' = IF ub = "trap"
               THEN [zmap EXCEPT !.impl = "Golomb", !.trapped = TRUE]
               ELSE LET u == mapToUnsigned(INTERLEAVING, zmap.n)
                    IN  [zmap EXCEPT !.impl = "Golomb", !.u = u,
                                     !.back = mapToSigned(INTERLEAVING, u)]
    /\ UNCHANGED <<golombVars, bitVars, codecVars, unitVars>>

\* the codecs' inline mapping followed by its inline inverse
InlineMapRoundTrip(ub) ==
    /\ zmap.impl = "none"
    /\ ub = "trap" => InlineOverflows(zmap.n)
    /\ zmap' = IF ub = "trap"
               THEN [zmap EXCEPT !.impl = "inline", !.trapped = TRUE]
               ELSE LET u == InlineMapToUnsigned(zmap.n)
                    IN  [zmap EXCEPT !.impl = "inline", !.u = u,
                                     !.back = InlineMapToSigned(u)]
    /\ UNCHANGED <<golombVars, bitVars, codecVars, unitVars>>

NextMap ==
    \/ \E ub \in UBOutcomes : GolombMapRoundTrip(ub)
    \/ \E ub \in UBOutcomes : InlineMapRoundTrip(ub)

SpecMap == InitMap /\ [][NextMap]_vars

----------------------------------------------------------------------------
(* BitWriter and BitReader (lossless_codec.cpp) *)

\* BitWriter::writeBit: cur |= (b & 1) << (7 - bitPos); a full byte is pushed
writeBit(w, b) ==
    LET c == w.cur + (b % 2) * 2^(7 - w.bitPos)
    IN  IF w.bitPos + 1 = 8
        THEN [bytes |-> Append(w.bytes, c), cur |-> 0, bitPos |-> 0]
        ELSE [w EXCEPT !.cur = c, !.bitPos = w.bitPos + 1]

\* the loop of BitWriter::writeBits, at index i (counting down to 0); the
\* writer after each bit is w1, a value computed before the loop goes on
RECURSIVE writeBitsFrom(_, _, _)
writeBitsFrom(w, value, i) ==
    IF i < 0 THEN w
    ELSE CHOOSE done \in {writeBitsFrom(w1, value, i - 1) :
                              w1 \in {writeBit(w, (value \div 2^i) % 2)}} : TRUE

\* mutant: the field is written least significant bit first
RECURSIVE writeBitsLsbFirst(_, _, _)
writeBitsLsbFirst(w, value, n) ==
    IF n <= 0 THEN w
    ELSE writeBitsLsbFirst(writeBit(w, value % 2), value \div 2, n - 1)

\* BitWriter::writeBits(value, n)
writeBits(w, value, n) == writeBitsFrom(w, value, n - 1)

\* BitWriter::writeUnary(q): q zeros then a one
RECURSIVE writeUnary(_, _)
writeUnary(w, q) ==
    IF q = 0 THEN writeBit(w, 1)
    ELSE CHOOSE done \in {writeUnary(w1, q - 1) : w1 \in {writeBit(w, 0)}} : TRUE

\* BitWriter::flush: a partial byte is pushed as it is (zero padded)
flush(w) ==
    IF w.bitPos # 0 THEN [bytes |-> Append(w.bytes, w.cur), cur |-> 0, bitPos |-> 0]
    ELSE w

\* BitWriter::bitCount
bitCount(w) == Len(w.bytes) * 8 + w.bitPos

\* BitReader::set
readerSet(buf) == [data |-> buf, bytePos |-> 0, bitPos |-> 0, isSet |-> TRUE]

\* BitReader::readBit: [ok, out, r], r the reader afterwards
readBit(r) ==
    IF Len(r.data) = 0 \/ r.bytePos >= Len(r.data)
    THEN [ok |-> FALSE, out |-> 0, r |-> r]
    ELSE [ok |-> TRUE,
          out |-> (r.data[r.bytePos + 1] \div 2^(7 - r.bitPos)) % 2,
          r |-> IF r.bitPos + 1 = 8
                THEN [r EXCEPT !.bitPos = 0, !.bytePos = r.bytePos + 1]
                ELSE [r EXCEPT !.bitPos = r.bitPos + 1]]

\* the loop of BitReader::readBits, with out accumulated so far and i bits to go
RECURSIVE readBitsLoop(_, _, _)
readBitsLoop(r, out, i) ==
    IF i <= 0 THEN [ok |-> TRUE, out |-> out, r |-> r]
    ELSE LET one == readBit(r)
         IN  IF ~one.ok THEN [ok |-> FALSE, out |-> out, r |-> one.r]
             ELSE readBitsLoop(one.r, 2 * out + one.out, i - 1)

\* BitReader::readBits(out, n)
readBits(r, n) == readBitsLoop(r, 0, n)

\* bits consumed by a reader
readPos(r) == r.bytePos * 8 + r.bitPos

\* field values tried for a width: all zeros, all ones, a mixed pattern
FieldValues(w) == {0, 2^w - 1, (2^w) \div 3}

\* a caller writes one field
WriteField(v, w) ==
    /\ ~br.isSet
    /\ Len(blog) < MaxFields
    /\ bw' = writeBits(bw, v, w)
    /\ blog' = Append(blog, [value |-> v, width |-> w])
    /\ UNCHANGED <<golombVars, zmap, br, bgot, codecVars, unitVars>>

\* the caller flushes the writer and sets a reader on the produced bytes
FlushAndSet ==
    /\ ~br.isSet
    /\ bw' = flush(bw)
    /\ br' = readerSet(flush(bw).bytes)
    /\ UNCHANGED <<golombVars, zmap, blog, bgot, codecVars, unitVars>>

\* the caller reads the next field back with the width it was written with
ReadField ==
    /\ br.isSet
    /\ Len(bgot) < Len(blog)
    /\ LET got == readBits(br, blog[Len(bgot) + 1].width)
       IN  /\ br' = got.r
           /\ bgot' = Append(bgot, [ok |-> got.ok, value |-> got.out])
    /\ UNCHANGED <<golombVars, zmap, bw, blog, codecVars, unitVars>>

InitBits == IdleGolomb /\ IdleMap /\ IdleBits /\ IdleUnits /\ IdleCodecs

NextBits ==
    \/ \E w \in 1..MaxWidth : \E v \in FieldValues(w) : WriteField(v, w)
    \/ FlushAndSet
    \/ ReadField

SpecBits == InitBits /\ [][NextBits]_vars

----------------------------------------------------------------------------
(* Mid/side transform of lossless_audio.cpp *)

\* conversion of an int to int16_t (modulo 2^16)
ToInt16(x) == ((x + 2^15) % 2^16) - 2^15

\* x >> 1 on a signed value (arithmetic shift)
Sar1(x) == x \div 2

\* encoder, lines 124-132: side = left - right; mid = right + (side >> 1)
MidSideForward(left, right) ==
    LET side == ToInt16(left - right)
    IN  [mid |-> ToInt16(right + Sar1(side)), side |-> side]

\* mutant: the inverse halves side with a division that truncates toward zero
MidSideInverse_TruncDiv(mid, side) ==
    LET half == IF side < 0 THEN -((-side) \div 2) ELSE side \div 2
        right == ToInt16(mid - half)
    IN  [left |-> ToInt16(right + side), right |-> right]

\* decoder, lines 359-364: right = mid - (side >> 1); left = right + side
MidSideInverse(mid, side) ==
    LET right == ToInt16(mid - Sar1(side))
    IN  [left |-> ToInt16(right + side), right |-> right]

EdgeSamples == UNION {{-(2^15) + k, 2^15 - 1 - k, k, -k} : k \in 0..MaxOff}

InitMidSide ==
    /\ IdleGolomb /\ IdleMap /\ IdleBits /\ IdleUnits
    /\ IdleAudio /\ IdleCodec /\ IdleImage
    /\ \E l \in EdgeSamples, r \in EdgeSamples : ms = [NoFrame EXCEPT !.L = l, !.R = r]

\* the encoder's transform of the frame
Forward ==
    /\ ms.stage = "none"
    /\ LET f == MidSideForward(ms.L, ms.R)
       IN  ms' = [ms EXCEPT !.stage = "encoded", !.mid = f.mid, !.side = f.side]
    /\ UNCHANGED <<golombVars, zmap, bitVars, aud, cdc, img, unitVars>>

\* the decoder's transform of the stored pair
Inverse ==
    /\ ms.stage = "encoded"
    /\ LET g == MidSideInverse(ms.mid, ms.side)
       IN  ms' = [ms EXCEPT !.stage = "decoded", !.L2 = g.left, !.R2 = g.right]
    /\ UNCHANGED <<golombVars, zmap, bitVars, aud, cdc, img, unitVars>>

NextMidSide == Forward \/ Inverse

SpecMidSide == InitMidSide /\ [][NextMidSide]_vars

----------------------------------------------------------------------------
(* Wav inputs of the two audio codecs *)

SampleSeqs(vals, channels) ==
    UNION {[1..(f * channels) -> vals] :
             f \in {g \in 0..MaxFrames : g * channels <= MaxSamples}}

Wavs(vals) ==
    UNION {{[samplerate |-> 44100, channels |-> c, samples |-> smp] :
              smp \in SampleSeqs(vals, c)} : c \in {1, 2}}

Frames(wav) == IF wav.channels = 0 THEN 0 ELSE Len(wav.samples) \div wav.channels

----------------------------------------------------------------------------
(* Block codec of lossless_codec.cpp: first-order prediction, one BitWriter
   per block, block header (m, bitsCount) written after the block is coded *)

GBLK_MAGIC == 1195527243
InitialAdaptiveM == 4
SelfTestBlock == 4096

\* std::round(a / b) for a >= 0, b > 0: halves go away from zero
RoundDiv(a, b) == (2 * a + b) \div (2 * b)

\* truncated-binary parameters of a block, lines 144-146
CodecB(currentM) == IF currentM <= 1 THEN 1 ELSE CeilLog2(currentM)
CodecT(currentM) == 2^CodecB(currentM) - currentM

\* one sample of the encoder's inner loop, lines 151-172
CodecEncodeSample(w, smp, pred, currentM) ==
    LET mapped == InlineMapToUnsigned(smp - pred)
        q == mapped \div currentM
        r == mapped % currentM
        b == CodecB(currentM)
        t == CodecT(currentM)
        w1 == writeUnary(w, q)
    IN  IF currentM = 1 THEN w1
        ELSE IF r < t THEN (IF b > 1 THEN writeBits(w1, r, b - 1) ELSE w1)
        ELSE writeBits(w1, r + t, b)

\* the encoder's loops over frames and channels, lines 148-184
RECURSIVE CodecEncodeLoop(_, _, _, _, _, _)
CodecEncodeLoop(w, prev, buffer, channels, currentM, idx) ==
    IF idx >= Len(buffer) THEN [w |-> w, prev |-> prev]
    ELSE LET ch == idx % channels
             smp == buffer[idx + 1]
         IN  CHOOSE done \in
                 {CodecEncodeLoop(w1, [prev EXCEPT ![ch + 1] = smp], buffer,
                                  channels, currentM, idx + 1) :
                     w1 \in {CodecEncodeSample(w, smp, prev[ch + 1], currentM)}} : TRUE

\* one block, lines 137-204: the samples are coded with currentM, then (m == 0)
\* currentM is replaced by the rounded mean bits per sample, and only then the
\* block header is written from currentM
CodecEncodeBlock(buffer, channels, m, currentM, prev) ==
    LET done == CodecEncodeLoop(NewWriter, prev, buffer, channels, currentM, 0)
        newM == IF m = 0 THEN Max(1, RoundDiv(bitCount(done.w), Len(buffer)))
                ELSE currentM
        fl == flush(done.w)
    IN  [block |-> [m |-> newM, bitsCount |-> bitCount(fl), bytes |-> fl.bytes],
         currentM |-> newM, prev |-> done.prev]

\* the while loop over sf_readf_int, lines 129-220; pos counts frames read
RECURSIVE CodecEncodeBlocks(_, _, _, _, _, _, _)
CodecEncodeBlocks(wav, blockSamples, m, currentM, prev, pos, blocks) ==
    LET readFrames == Min(blockSamples, Frames(wav) - pos)
    IN  IF readFrames <= 0 THEN blocks
        ELSE LET buffer == SubSeq(wav.samples, pos * wav.channels + 1,
                                  (pos + readFrames) * wav.channels)
                 e == CodecEncodeBlock(buffer, wav.channels, m, currentM, prev)
             IN  CodecEncodeBlocks(wav, blockSamples, m, e.currentM, e.prev,
                                   pos + readFrames, Append(blocks, e.block))

\* encodeWavWithGolomb of lossless_codec.cpp: the file it writes
codec_encodeWavWithGolomb(wav, m, blockSamples) ==
    [hdr |-> [magic |-> GBLK_MAGIC, sampleRate |-> wav.samplerate,
              channels |-> wav.channels, frames |-> Frames(wav),
              blockSamples |-> blockSamples],
     blocks |-> CodecEncodeBlocks(wav, blockSamples, m,
                                  IF m = 0 THEN InitialAdaptiveM ELSE m,
                                  [c \in 1..wav.channels |-> 0], 0, <<>>)]

\* the unary loop of the decoder, lines 285-289: [ok, q, r]
RECURSIVE CodecReadUnary(_, _)
CodecReadUnary(r, q) ==
    LET one == readBit(r)
    IN  IF ~one.ok THEN [ok |-> FALSE, q |-> q, r |-> one.r]
        ELSE IF one.out = 1 THEN [ok |-> TRUE, q |-> q, r |-> one.r]
        ELSE CodecReadUnary(one.r, q + 1)

\* one value of the decoder, lines 281-310, for blockM >= 1: [ok, val, r];
\* ok is FALSE where the code jumps to block_done
CodecDecodeValue(r, blockM) ==
    LET u == CodecReadUnary(r, 0)
        b == CeilLog2(blockM)
        t == 2^b - blockM
        x == readBits(u.r, b - 1)
        more == readBit(x.r)
    IN  IF ~u.ok THEN [ok |-> FALSE, val |-> 0, r |-> u.r]
        ELSE IF blockM = 1 THEN [ok |-> TRUE, val |-> u.q, r |-> u.r]
        ELSE IF ~x.ok THEN [ok |-> FALSE, val |-> 0, r |-> x.r]
        ELSE IF x.out < t THEN [ok |-> TRUE, val |-> u.q * blockM + x.out, r |-> x.r]
        ELSE IF ~more.ok THEN [ok |-> FALSE, val |-> 0, r |-> more.r]
        ELSE [ok |-> TRUE, val |-> u.q * blockM + ((2 * x.out + more.out) - t),
              r |-> more.r]

\* the decoder's loops over a block, lines 278-325; k counts samples
RECURSIVE CodecDecodeLoop(_, _, _, _, _, _, _)
CodecDecodeLoop(r, prev, blockM, channels, limit, k, outbuf) ==
    IF k >= limit THEN [outbuf |-> outbuf, prev |-> prev]
    ELSE LET v == CodecDecodeValue(r, blockM)
             ch == k % channels
             sample == prev[ch + 1] + InlineMapToSigned(v.val)
         IN  IF ~v.ok THEN [outbuf |-> outbuf, prev |-> prev]
             ELSE CodecDecodeLoop(v.r, [prev EXCEPT ![ch + 1] = sample], blockM,
                                  channels, limit, k + 1, Append(outbuf, sample))

\* the while loop over the blocks of the file, lines 261-338: whole frames of
\* outbuf are written, a trailing partial frame is dropped
RECURSIVE CodecDecodeBlocks(_, _, _, _)
CodecDecodeBlocks(file, prev, i, out) ==
    IF i > Len(file.blocks) THEN out
    ELSE LET blk == file.blocks[i]
             channels == file.hdr.channels
             d == CodecDecodeLoop(readerSet(blk.bytes), prev, blk.m, channels,
                                  file.hdr.blockSamples * channels, 0, <<>>)
             whole == (Len(d.outbuf) \div channels) * channels
         IN  CodecDecodeBlocks(file, d.prev, i + 1, out \o SubSeq(d.outbuf, 1, whole))

\* decodeGolombToWav of lossless_codec.cpp: [ret, out]
codec_decodeGolombToWav(file) ==
    IF file.hdr.magic # GBLK_MAGIC THEN [ret |-> FALSE, out |-> NoWav]
    ELSE [ret |-> TRUE,
          out |-> [samplerate |-> file.hdr.sampleRate, channels |-> file.hdr.channels,
                   samples |-> CodecDecodeBlocks(file,
                                   [c \in 1..file.hdr.channels |-> 0], 1, <<>>)]]

\* compareWavFiles of lossless_codec_main.cpp
compareWavFiles(a, b) ==
    /\ Frames(a) = Frames(b)
    /\ a.channels = b.channels
    /\ a.samplerate = b.samplerate
    /\ a.samples = b.samples

CodecSampleValues == {-3, 0, 2}
CodecMValues == {0, 1, 3, 4}
CodecBlockSizes == (1..MaxBlock) \cup {SelfTestBlock}

InitCodec ==
    /\ IdleGolomb /\ IdleMap /\ IdleBits /\ IdleUnits
    /\ IdleMidSide /\ IdleAudio /\ IdleImage
    /\ \E wav \in Wavs(CodecSampleValues), m \in CodecMValues, bs \in CodecBlockSizes :
         cdc = [NoCodec EXCEPT !.stage = "input", !.wav = wav, !.m = m,
                               !.blockSamples = bs]

\* a call of encodeWavWithGolomb on the input wav
CodecEncode ==
    /\ cdc.stage = "input"
    /\ cdc' = [cdc EXCEPT !.stage = "encoded", !.ret = TRUE,
                          !.file = codec_encodeWavWithGolomb(cdc.wav, cdc.m,
                                                             cdc.blockSamples)]
    /\ UNCHANGED <<golombVars, zmap, bitVars, ms, aud, img, unitVars>>

\* a call of decodeGolombToWav on the encoded file
CodecDecode ==
    /\ cdc.stage = "encoded"
    /\ LET d == codec_decodeGolombToWav(cdc.file)
       IN  cdc' = [cdc EXCEPT !.stage = "decoded", !.ret = d.ret, !.out = d.out]
    /\ UNCHANGED <<golombVars, zmap, bitVars, ms, aud, img, unitVars>>

NextCodec == CodecEncode \/ CodecDecode

SpecCodec == InitCodec /\ [][NextCodec]_vars

----------------------------------------------------------------------------
(* BitStream (bit_stream.h is not among the sources; modelled from the design
   document, section 4.1): a stream is the sequence of bits written so far, a
   reader is a 0-based position in it *)

EOF == -1

write_bit(bits, bit) == Append(bits, bit)

\* the n low bits of value, most significant first; nothing for n = 0
write_n_bits(bits, value, n) == bits \o BitsOf(value, n)

write_zeros(bits, q) == bits \o Zeros(q)

\* close on a write stream: the trailing byte is padded with zeros
close(bits) == bits \o Zeros((8 - (Len(bits) % 8)) % 8)

read_bit(bits, pos) == IF pos < Len(bits) THEN bits[pos + 1] ELSE EOF

\* bits past the end read as zeros
read_n_bits(bits, pos, n) ==
    BitsValue([i \in 1..n |-> IF pos + i <= Len(bits) THEN bits[pos + i] ELSE 0])

----------------------------------------------------------------------------
(* Block estimator of lossless_audio.cpp: m = ceil(-1 / log2(alpha)) with
   alpha = mean / (mean + 1) and mean = S / N.  For S > 0 this is the least
   m >= 1 with ((S + N) / S)^m >= 2, decided here in exact arithmetic on
   naturals held as little-endian digit sequences *)

BigBase == 2^15

\* a * k for a digit k
RECURSIVE BigMulFrom(_, _, _, _)
BigMulFrom(a, k, i, carry) ==
    IF i > Len(a) THEN (IF carry = 0 THEN <<>> ELSE <<carry>>)
    ELSE LET t == a[i] * k + carry
         IN  <<t % BigBase>> \o BigMulFrom(a, k, i + 1, t \div BigBase)
BigMul(a, k) == BigMulFrom(a, k, 1, 0)

\* a >= b, comparing from the most significant digit i down
RECURSIVE BigGeqFrom(_, _, _)
BigGeqFrom(a, b, i) ==
    IF i = 0 THEN TRUE
    ELSE IF a[i] # b[i] THEN a[i] > b[i]
    ELSE BigGeqFrom(a, b, i - 1)
BigGeq(a, b) == IF Len(a) # Len(b) THEN Len(a) > Len(b) ELSE BigGeqFrom(a, b, Len(a))

RECURSIVE OptimalMFrom(_, _, _, _, _)
OptimalMFrom(powA, powB, a, b, m) ==
    IF BigGeq(powA, BigMul(powB, 2)) THEN m
    ELSE OptimalMFrom(BigMul(powA, a), BigMul(powB, b), a, b, m + 1)

\* lines 164-172, sumAbs = S over N residuals (S + N < 2^15): 0 when S = 0,
\* since alpha = 0, log2(0) = -inf, -1 / -inf = 0
OptimalM(S, N) == IF S = 0 THEN 0 ELSE OptimalMFrom(<<S + N>>, <<S>>, S + N, S, 1)

RECURSIVE SumAbs(_)
SumAbs(residuals) ==
    IF Len(residuals) = 0 THEN 0 ELSE Abs(Head(residuals)) + SumAbs(Tail(residuals))

----------------------------------------------------------------------------
(* Audio codec of lossless_audio.cpp *)

QCap == 10000
RunawayLimit == 100000
BufferFrames == 4096

\* integer division by zero is undefined: the build traps, or (where the
\* divide instruction does not trap) the quotient is 0
DivZeroOutcomes == {"trap", "zero"}

\* value left in the reserved but unwritten slot of a vector
StaleValues == {0, -1}

\* mutant: the prediction is returned as computed
Clamp16_Off(x) == x

Clamp16(x) == Max(-(2^15), Min(2^15 - 1, x))

\* mutant: the 2-tap predictor takes its two history samples in swapped order
computePrediction_Swapped(order, history) ==
    Clamp16(CASE order = 1 -> history[1]
              [] order = 2 -> 2 * history[2] - history[1]
              [] order = 3 -> (3 * history[1] - 3 * history[2]) + history[3]
              [] OTHER -> 0)

\* the switch of computePrediction, lines 30-54: pred before the clamp;
\* history = <<s[n-1], s[n-2], s[n-3]>>
PredictionSum(order, history) ==
    CASE order = 1 -> history[1]
      [] order = 2 -> 2 * history[1] - history[2]
      [] order = 3 -> (3 * history[1] - 3 * history[2]) + history[3]
      [] OTHER -> 0

\* computePrediction, lines 28-58
computePrediction(order, history) == Clamp16(PredictionSum(order, history))

\* lines 154-156 and 351-353
ShiftHistory(history, sample) == <<sample, history[1], history[2]>>

NewHistory(numCh) == [c \in 1..numCh |-> <<0, 0, 0>>]

\* lines 120-136: stereo frames become (mid, side) pairs
EncodingChannels(buffer, channels) ==
    IF channels = 2
    THEN [i \in 1..Len(buffer) |->
            LET f == (i - 1) \div 2
                p == MidSideForward(buffer[2 * f + 1], buffer[2 * f + 2])
            IN  IF i % 2 = 1 THEN p.mid ELSE p.side]
    ELSE buffer

\* lines 142-158: residuals of a block and the history after it; used lists
\* the history each sample was predicted from
RECURSIVE AudioResiduals(_, _, _, _, _, _, _)
AudioResiduals(order, history, enc, numCh, idx, residuals, used) ==
    IF idx >= Len(enc) THEN [residuals |-> residuals, history |-> history, used |-> used]
    ELSE LET ch == idx % numCh
             sample == enc[idx + 1]
             pred == computePrediction(order, history[ch + 1])
         IN  AudioResiduals(order,
                            [history EXCEPT ![ch + 1] = ShiftHistory(@, sample)],
                            enc, numCh, idx + 1, Append(residuals, sample - pred),
                            Append(used, history[ch + 1]))

\* lines 161-173
AudioBlockM(m, residuals) ==
    IF m = 0 THEN OptimalM(SumAbs(residuals), Len(residuals)) ELSE m

\* line 175; for blockM = 0 the cast of -inf yields 0 where it does not trap
AudioB(blockM) == IF blockM = 0 THEN 0 ELSE CeilLog2(blockM)
AudioCutoff(blockM) == 2^AudioB(blockM) - blockM

\* lines 188-207: one residual appended to the stream (blockM = 0: the
\* non-trapping division, quotient 0 and remainder mapped)
AudioEncodeResidual(bits, resid, blockM) ==
    LET mapped == InlineMapToUnsigned(resid)
        q0 == IF blockM = 0 THEN 0 ELSE mapped \div blockM
        r == IF blockM = 0 THEN mapped ELSE mapped % blockM
        q == IF q0 > QCap THEN QCap ELSE q0
        b == AudioB(blockM)
        cutoff == AudioCutoff(blockM)
        u == write_bit(write_zeros(bits, q), 1)
    IN  IF r < cutoff THEN (IF b > 1 THEN write_n_bits(u, r, b - 1) ELSE u)
        ELSE write_n_bits(u, r + cutoff, b)

RECURSIVE AudioEncodeResiduals(_, _, _, _)
AudioEncodeResiduals(bits, residuals, blockM, i) ==
    IF i > Len(residuals) THEN bits
    ELSE AudioEncodeResiduals(AudioEncodeResidual(bits, residuals[i], blockM),
                              residuals, blockM, i + 1)

RECURSIVE AudioEncodeBlocks(_, _, _, _, _, _, _, _, _)

\* lines 160-213: a block whose residuals res and parameter blockM are known is
\* written (header, then the residuals) and the loop goes on with the next one
AudioEncodeBlock(wav, m, blockSamples, order, ub, next, bits, blocks, res, blockM) ==
    LET header == write_n_bits(write_n_bits(bits, blockM, 16), Len(res.residuals), 32)
        done == Append(blocks, [m |-> blockM, residuals |-> res.residuals,
                                used |-> res.used])
    IN  IF blockM = 0 /\ ub = "trap"
        THEN [trapped |-> TRUE, bits |-> header, blocks |-> done]
        ELSE AudioEncodeBlocks(wav, m, blockSamples, order, ub, res.history, next,
                               AudioEncodeResiduals(header, res.residuals, blockM, 1),
                               done)

\* lines 138-158: the residuals res of the block are known, its m is chosen
AudioEncodeChosen(wav, m, blockSamples, order, ub, next, bits, blocks, res) ==
    AudioEncodeBlock(wav, m, blockSamples, order, ub, next, bits, blocks, res,
                     AudioBlockM(m, res.residuals))

\* the while loop over sf_readf_short, lines 116-217; pos counts frames read.
\* [trapped, bits, blocks]: trapped when a block's m is 0 and the division
\* traps; blocks lists each block's m and residuals
AudioEncodeBlocks(wav, m, blockSamples, order, ub, history, pos, bits, blocks) ==
    LET readFrames == Min(blockSamples, Frames(wav) - pos)
        buffer == SubSeq(wav.samples, pos * wav.channels + 1,
                         (pos + readFrames) * wav.channels)
        enc == EncodingChannels(buffer, wav.channels)
    IN  IF readFrames <= 0 THEN [trapped |-> FALSE, bits |-> bits, blocks |-> blocks]
        ELSE AudioEncodeChosen(wav, m, blockSamples, order, ub, pos + readFrames, bits,
                               blocks,
                               AudioResiduals(order, history, enc, wav.channels, 0, <<>>,
                                              <<>>))

\* the file header, lines 96-100
AudioHeader(wav, blockSamples, order) ==
    write_n_bits(write_n_bits(write_n_bits(write_n_bits(write_n_bits(<<>>,
        wav.samplerate, 32), wav.channels, 16), Frames(wav), 64), blockSamples, 32),
        order, 8)

\* line 219: the stream is closed
AudioCloseFile(e) == [trapped |-> e.trapped, file |-> close(e.bits), blocks |-> e.blocks]

\* encodeWavWithGolomb of lossless_audio.cpp: [trapped, file, blocks]
audio_encodeWavWithGolomb(wav, m, blockSamples, order, ub) ==
    AudioCloseFile(AudioEncodeBlocks(wav, m, blockSamples, order, ub,
                                     NewHistory(wav.channels), 0,
                                     AudioHeader(wav, blockSamples, order), <<>>))

\* the header fields read back, lines 242-246
AudioReadHeader(bits) ==
    [samplerate |-> read_n_bits(bits, 0, 32), channels |-> read_n_bits(bits, 32, 16),
     frames |-> read_n_bits(bits, 48, 64), blockSamples |-> read_n_bits(bits, 112, 32),
     predictorOrder |-> read_n_bits(bits, 144, 8)]

AudioHeaderBits == 152

\* mutant: the unary loop gives up when the run reaches the limit
Runaway_AtLimit(q) == q >= RunawayLimit

\* lines 310-321 (and lossless_image.cpp 476-482): the unary loop gives up
\* once it has counted more than 100000 zeros
Runaway(q) == q > RunawayLimit

RECURSIVE AudioDecodeSamples(_, _, _, _, _, _, _, _, _, _)

\* lines 322-353: one sample whose unary run of q zeros was counted at pos
AudioDecodeSample(bits, pos, history, blockM, numCh, order, count, s, decoded, used, q) ==
    LET b == CeilLog2(blockM)
        cutoff == 2^b - blockM
        bit == read_bit(bits, pos + q)
        p1 == pos + q + 1
        r0 == IF b > 1 THEN read_n_bits(bits, p1, b - 1) ELSE 0
        p2 == IF b > 1 THEN p1 + (b - 1) ELSE p1
        extraBit == read_bit(bits, p2)
        r == IF r0 < cutoff THEN r0 ELSE (2 * r0 + extraBit) - cutoff
        p3 == IF r0 < cutoff THEN p2 ELSE p2 + 1
        mapped == q * blockM + r
        ch == s % numCh
        pred == computePrediction(order, history[ch + 1])
        sample == ToInt16(pred + InlineMapToSigned(mapped))
        stop == [runaway |-> FALSE, eof |-> "none", pos |-> Len(bits),
                 history |-> history, decoded |-> decoded, used |-> used]
    IN  IF Runaway(q) THEN [stop EXCEPT !.runaway = TRUE]
        ELSE IF bit = EOF THEN [stop EXCEPT !.eof = "unary"]
        ELSE IF r0 >= cutoff /\ extraBit = EOF THEN [stop EXCEPT !.eof = "extra"]
        ELSE AudioDecodeSamples(bits, p3,
                                [history EXCEPT ![ch + 1] = ShiftHistory(@, sample)],
                                blockM, numCh, order, count, s + 1,
                                Append(decoded, sample), Append(used, history[ch + 1]))

\* the for loop over a block's samples, lines 309-354; s counts samples.
\* [runaway, eof, pos, history, decoded, used]; a break leaves the loop with
\* what was decoded so far, eof telling where the stream ended ("unary",
\* "extra"); used lists the history each decoded sample was predicted from
AudioDecodeSamples(bits, pos, history, blockM, numCh, order, count, s, decoded, used) ==
    IF s >= count
    THEN [runaway |-> FALSE, eof |-> "none", pos |-> pos, history |-> history,
          decoded |-> decoded, used |-> used]
    ELSE AudioDecodeSample(bits, pos, history, blockM, numCh, order, count, s, decoded,
                           used, ZeroRun(bits, pos))

\* lines 357-375: the block's samples as output samples; an odd number of
\* decoded stereo samples makes the last pair read one slot past the end
BlockOutput(decoded, channels, stale) ==
    IF channels = 2
    THEN [i \in 1..(2 * ((Len(decoded) + 1) \div 2)) |->
            LET f == (i - 1) \div 2
                side == IF 2 * f + 2 <= Len(decoded) THEN decoded[2 * f + 2] ELSE stale
                p == MidSideInverse(decoded[2 * f + 1], side)
            IN  IF i % 2 = 1 THEN p.left ELSE p.right]
    ELSE decoded

RECURSIVE AudioDecodeBlocks(_, _, _, _, _, _, _, _, _, _)

\* lines 357-391: the block's decoded samples d go to the output buffer and
\* the loop goes on with the next block; a runaway unary run returns false
AudioDecodeBlock(bits, hdr, processed, outBuffer, written, oob, stale, blocks, blockM, count, d) ==
    LET buf == outBuffer \o BlockOutput(d.decoded, hdr.channels, stale)
        full == Len(buf) >= BufferFrames * hdr.channels
        whole == SubSeq(buf, 1, (Len(buf) \div hdr.channels) * hdr.channels)
        read == Append(blocks, [m |-> blockM, count |-> count,
                                decoded |-> Len(d.decoded), eof |-> d.eof,
                                used |-> d.used])
    IN  IF d.runaway
        THEN [ret |-> FALSE, written |-> written, oob |-> oob, end |-> "runaway",
              blocks |-> read]
        ELSE AudioDecodeBlocks(bits, d.pos, hdr, d.history,
                               processed + (Len(buf) - Len(outBuffer)),
                               IF full THEN <<>> ELSE buf,
                               IF full THEN written \o whole ELSE written,
                               oob \/ (hdr.channels = 2 /\ Len(d.decoded) % 2 = 1),
                               stale, read)

\* the while loop over blocks, lines 288-391, and the final write, 394-396:
\* [ret, written, oob, end, blocks]; written is what reached the output file,
\* end tells how the loop was left, blocks lists each block header read with
\* the number of samples decoded under it and where the stream ended in it
AudioDecodeBlocks(bits, pos, hdr, history, processed, outBuffer, written, oob, stale, blocks) ==
    LET blockM == read_n_bits(bits, pos, 16)
        count == read_n_bits(bits, pos + 16, 32)
        final == [ret |-> TRUE, oob |-> oob, end |-> "complete", blocks |-> blocks,
                  written |-> written \o SubSeq(outBuffer, 1,
                                  (Len(outBuffer) \div hdr.channels) * hdr.channels)]
    IN  IF processed >= hdr.frames * hdr.channels THEN final
        ELSE IF blockM = 0 \/ count = 0
        THEN [final EXCEPT !.end = "zero_header",
                           !.blocks = Append(blocks, [m |-> blockM, count |-> count,
                                                      decoded |-> 0, eof |-> "none",
                                                      used |-> <<>>])]
        ELSE AudioDecodeBlock(bits, hdr, processed, outBuffer, written, oob, stale,
                              blocks, blockM, count,
                              AudioDecodeSamples(bits, pos + 48, history, blockM,
                                                 hdr.channels, hdr.predictorOrder,
                                                 count, 0, <<>>, <<>>))

\* lines 248-286 and 398-407: the stream with header hdr is decoded into a WAV
\* of the header's format
AudioDecodeFile(bits, stale, hdr) ==
    [hdr |-> hdr,
     d |-> AudioDecodeBlocks(bits, AudioHeaderBits, hdr, NewHistory(hdr.channels), 0,
                             <<>>, <<>>, FALSE, stale, <<>>)]

AudioDecodeResult(f) ==
    [ret |-> f.d.ret, oob |-> f.d.oob, end |-> f.d.end, blocks |-> f.d.blocks,
     out |-> [samplerate |-> f.hdr.samplerate, channels |-> f.hdr.channels,
              samples |-> f.d.written]]

\* decodeGolombToWav of lossless_audio.cpp: [ret, out, oob, end, blocks]
audio_decodeGolombToWav(bits, stale) ==
    AudioDecodeResult(AudioDecodeFile(bits, stale, AudioReadHeader(bits)))

AudioSampleValues == {-1, 0, 2}
AudioMValues == {0, 1, 3, 4, 32, 256}
PredictorOrders == 0..3
AudioBlockSizes == 1..MaxBlock

InitAudio ==
    /\ IdleGolomb /\ IdleMap /\ IdleBits /\ IdleUnits
    /\ IdleMidSide /\ IdleCodec /\ IdleImage
    /\ \E wav \in Wavs(AudioSampleValues), m \in AudioMValues,
          bs \in AudioBlockSizes, order \in PredictorOrders :
         aud = [NoAudio EXCEPT !.stage = "input", !.wav = wav, !.m = m,
                               !.blockSamples = bs, !.order = order]

\* a call of encodeWavWithGolomb on the input wav; a trap ends the process
\* before the stream is closed
AudioEncode(ub) ==
    /\ aud.stage = "input"
    /\ \E e \in {audio_encodeWavWithGolomb(aud.wav, aud.m, aud.blockSamples,
                                            aud.order, ub)} :
           /\ ub = "trap" => e.trapped
           /\ aud' = IF e.trapped
                     THEN [aud EXCEPT !.stage = "crashed", !.encBlocks = e.blocks]
                     ELSE [aud EXCEPT !.stage = "encoded", !.ret = TRUE,
                                      !.file = FileOf(e.file), !.encBlocks = e.blocks]
    /\ UNCHANGED <<golombVars, zmap, bitVars, ms, cdc, img, unitVars>>

\* a call of decodeGolombToWav on the encoded file
AudioDecode(stale) ==
    /\ aud.stage = "encoded"
    /\ \E d \in {audio_decodeGolombToWav(FileBits(aud.file), stale)} :
           /\ stale # 0 => d.oob
           /\ aud' = [aud EXCEPT !.stage = "decoded", !.ret = d.ret, !.out = d.out,
                                 !.oob = d.oob, !.end = d.end, !.decBlocks = d.blocks]
    /\ UNCHANGED <<golombVars, zmap, bitVars, ms, cdc, img, unitVars>>

NextAudio ==
    \/ \E ub \in DivZeroOutcomes : AudioEncode(ub)
    \/ \E stale \in StaleValues : AudioDecode(stale)

SpecAudio == InitAudio /\ [][NextAudio]_vars

\* the design document's worked example: four mono samples of 100, coded
\* with a fixed m
ExampleWavs == {[samplerate |-> 44100, channels |-> 1, samples |-> <<100, 100, 100, 100>>],
                [samplerate |-> 44100, channels |-> 1, samples |-> <<100, 100, 100>>],
                [samplerate |-> 8000, channels |-> 1, samples |-> <<100, 100>>]}

InitExample ==
    /\ IdleGolomb /\ IdleMap /\ IdleBits /\ IdleUnits
    /\ IdleMidSide /\ IdleCodec /\ IdleImage
    /\ \E wav \in ExampleWavs, m \in AudioMValues \ {0}, order \in PredictorOrders :
         \E bs \in AudioBlockSizes \cup {Len(wav.samples)} :
         aud = [NoAudio EXCEPT !.stage = "input", !.wav = wav, !.m = m,
                               !.blockSamples = bs, !.order = order]

SpecExample == InitExample /\ [][NextAudio]_vars

\* full-scale audio: one or two mono frames at the ends of the 16-bit range,
\* coded with small and large fixed m
LoudWavs ==
    {[samplerate |-> 44100, channels |-> 1, samples |-> smp] :
        smp \in UNION {[1..f -> {-(2^15), 2^15 - 1}] : f \in 1..2}}
LoudMValues == {1, 13, 14, 256}

InitLoud ==
    /\ IdleGolomb /\ IdleMap /\ IdleBits /\ IdleUnits
    /\ IdleMidSide /\ IdleCodec /\ IdleImage
    /\ \E wav \in LoudWavs, m \in LoudMValues, order \in 0..1, bs \in AudioBlockSizes :
         aud = [NoAudio EXCEPT !.stage = "input", !.wav = wav, !.m = m,
                               !.blockSamples = bs, !.order = order]

SpecLoud == InitLoud /\ [][NextAudio]_vars

----------------------------------------------------------------------------
(* computePrediction on its own, on histories of extreme 16-bit samples *)

\* orders tried: the four predictors and one order the switch does not know
CallOrders == PredictorOrders \cup {4}

InitPredict ==
    /\ IdleGolomb /\ IdleMap /\ IdleBits /\ IdleCodecs
    /\ sel = NoSelect /\ lsy = NoField /\ dec = NoDecode
    /\ \E order \in CallOrders, h \in EdgeSamples \X EdgeSamples \X EdgeSamples :
         prd = [NoCall EXCEPT !.stage = "input", !.order = order, !.history = h]

\* a call of computePrediction; sum is the value of pred before the clamp
Predict ==
    /\ prd.stage = "input"
    /\ prd' = [stage |-> "returned", order |-> prd.order, history |-> prd.history,
               sum |-> PredictionSum(prd.order, prd.history),
               pred |-> computePrediction(prd.order, prd.history)]
    /\ UNCHANGED <<golombVars, zmap, bitVars, codecVars, sel, lsy, dec>>

NextPredict == Predict

SpecPredict == InitPredict /\ [][NextPredict]_vars

----------------------------------------------------------------------------
(* Image codec of lossless_image.cpp *)

GIMG_MAGIC == 1195986247
ImageHeaderBits == 144
MaxAdaptiveM == 256

NONE == 0
LEFT == 1
UP == 2
UP_LEFT == 3
LEFT_UP_DIFF == 4
LEFT_AVG == 5
UP_AVG == 6
AVG == 7
JPEG_LS == 8
ImagePredictor == NONE..JPEG_LS

\* x / 2 on int32_t: the quotient is truncated toward zero
Half(x) == IF x < 0 THEN -((-x) \div 2) ELSE x \div 2

\* predict, lines 51-109; a = left, b = up, c = upLeft
predict(predictor, a, b, c) ==
    CASE predictor = LEFT -> a
      [] predictor = UP -> b
      [] predictor = UP_LEFT -> c
      [] predictor = LEFT_UP_DIFF -> (a + b) - c
      [] predictor = LEFT_AVG -> a + Half(b - c)
      [] predictor = UP_AVG -> b + Half(a - c)
      [] predictor = AVG -> Half(a + b)
      [] predictor = JPEG_LS ->
            IF a = 0 /\ b = 0 THEN 0
            ELSE IF a = 0 THEN b
            ELSE IF b = 0 THEN a
            ELSE IF c >= Max(a, b) THEN Min(a, b)
            ELSE IF c <= Min(a, b) THEN Max(a, b)
            ELSE (a + b) - c
      [] OTHER -> 0

\* the neighbours of pixel index k (0-based) in a row-major array, lines
\* 283-285 and 516-518: 0 outside the image
LeftOf(pixels, width, k) == IF k % width > 0 THEN pixels[k] ELSE 0
UpOf(pixels, width, k) == IF k \div width > 0 THEN pixels[(k - width) + 1] ELSE 0
UpLeftOf(pixels, width, k) ==
    IF k % width > 0 /\ k \div width > 0 THEN pixels[k - width] ELSE 0

PredictAt(predictor, pixels, width, k) ==
    predict(predictor, LeftOf(pixels, width, k), UpOf(pixels, width, k),
            UpLeftOf(pixels, width, k))

\* lines 272-293: the residuals of the block of n pixels starting at blockStart
ImageResiduals(image, predictor, blockStart, n) ==
    [i \in 1..n |-> image.pixels[blockStart + i]
                      - PredictAt(predictor, image.pixels, image.width,
                                  blockStart + i - 1)]

\* the mean S / N is so large that ceil(-1 / log2(alpha)) exceeds 255 and
\* the clamp of line 312 yields 256: -1 / log2(alpha) = ln 2 / ln(1 + N / S)
\* is above 0.693 * S / N, which is above 255
MeanAtCap(S, N) == 693 * S > 255000 * N

\* lines 296-316: the estimator's m clamped to [1, 256]
ImageBlockM(m, residuals) ==
    IF m # 0 THEN m
    ELSE IF MeanAtCap(SumAbs(residuals), Len(residuals)) THEN MaxAdaptiveM
    ELSE Max(1, Min(MaxAdaptiveM, OptimalM(SumAbs(residuals), Len(residuals))))

\* lines 332-336 and 461-465 (blockM >= 1): the cutoff is computed from
\* ceil(log2(m)) before b is raised to 1
ImageCutoff(blockM) == 2^CeilLog2(blockM) - blockM
ImageB(blockM) == IF CeilLog2(blockM) = 0 THEN 1 ELSE CeilLog2(blockM)

\* lines 340-368: one residual appended to the stream
ImageEncodeResidual(bits, resid, blockM) ==
    LET mapped == InlineMapToUnsigned(resid)
        q == mapped \div blockM
        r == mapped % blockM
        b == ImageB(blockM)
        cutoff == ImageCutoff(blockM)
        u == write_bit(write_zeros(bits, q), 1)
    IN  IF r < cutoff THEN (IF b > 1 THEN write_n_bits(u, r, b - 1) ELSE u)
        ELSE write_n_bits(u, r + cutoff, b)

RECURSIVE ImageEncodeResiduals(_, _, _, _)
ImageEncodeResiduals(bits, residuals, blockM, i) ==
    IF i > Len(residuals) THEN bits
    ELSE ImageEncodeResiduals(ImageEncodeResidual(bits, residuals[i], blockM),
                              residuals, blockM, i + 1)

\* the for loop over blocks, lines 268-378
RECURSIVE ImageEncodeBlocks(_, _, _, _, _, _, _)

\* lines 326-368: the block header (adaptive mode) and the block's codes
ImageEncodeBlock(image, predictor, m, effectiveBlockSize, next, bits, blocks, residuals, blockM) ==
    ImageEncodeBlocks(image, predictor, m, effectiveBlockSize, next,
                      ImageEncodeResiduals(IF m = 0 THEN write_n_bits(bits, blockM, 8)
                                           ELSE bits,
                                           residuals, blockM, 1),
                      Append(blocks, [m |-> blockM, residuals |-> residuals,
                                      blockStart |-> next - effectiveBlockSize]))

\* lines 272-316: the block's residuals are known, its m is chosen
ImageEncodeChosen(image, predictor, m, effectiveBlockSize, next, bits, blocks, residuals) ==
    ImageEncodeBlock(image, predictor, m, effectiveBlockSize, next, bits, blocks,
                     residuals, ImageBlockM(m, residuals))

\* the for loop over blocks, lines 268-378: [bits, blocks]; blocks lists the m
\* and the residuals of each block
ImageEncodeBlocks(image, predictor, m, effectiveBlockSize, blockStart, bits, blocks) ==
    LET totalPixels == image.width * image.height
        currentBlockSize == Min(effectiveBlockSize, totalPixels - blockStart)
    IN  IF blockStart >= totalPixels THEN [bits |-> bits, blocks |-> blocks]
        ELSE ImageEncodeChosen(image, predictor, m, effectiveBlockSize,
                               blockStart + effectiveBlockSize, bits, blocks,
                               ImageResiduals(image, predictor, blockStart,
                                              currentBlockSize))

\* line 380: the stream is closed
ImageCloseFile(e) ==
    [file |-> close(e.bits), blockMs |-> [i \in 1..Len(e.blocks) |-> e.blocks[i].m],
     residuals |-> [i \in 1..Len(e.blocks) |-> e.blocks[i].residuals],
     starts |-> [i \in 1..Len(e.blocks) |-> e.blocks[i].blockStart]]

\* mutant: a block size of 0 stands for single-pixel blocks
EffectiveBlockSize_One(blockSize, width) == IF blockSize = 0 THEN 1 ELSE blockSize

\* line 225: per-row blocks if blockSize is 0
EffectiveBlockSize(blockSize, width) == IF blockSize = 0 THEN width ELSE blockSize

\* encodeImage (autoSelectPredictor false): [file, blockMs, residuals, starts],
\* the file it writes and the m, the residuals and the start of each block
encodeImage(image, predictor, m, blockSize) ==
    LET effectiveBlockSize == EffectiveBlockSize(blockSize, image.width)
        header == write_n_bits(write_n_bits(write_n_bits(write_n_bits(write_n_bits(
                      write_n_bits(<<>>, GIMG_MAGIC, 32), image.width, 32),
                      image.height, 32), predictor, 8), m, 8), effectiveBlockSize, 32)
    IN  ImageCloseFile(ImageEncodeBlocks(image, predictor, m, effectiveBlockSize, 0,
                                         header, <<>>))

\* the header fields read back, lines 412-422
ImageReadHeader(bits) ==
    [magic |-> read_n_bits(bits, 0, 32), width |-> read_n_bits(bits, 32, 32),
     height |-> read_n_bits(bits, 64, 32), predictor |-> read_n_bits(bits, 96, 8),
     mFlag |-> read_n_bits(bits, 104, 8), blockSize |-> read_n_bits(bits, 112, 32)]

\* the for loop over a block's pixels, lines 468-529: [ok, pos, pixels];
\* ok is FALSE where the code returns false
RECURSIVE ImageDecodePixels(_, _, _, _, _, _, _, _)
ImageDecodePixels(bits, pos, hdr, blockM, blockStart, n, i, pixels) ==
    LET b == ImageB(blockM)
        cutoff == ImageCutoff(blockM)
        q == ZeroRun(bits, pos)
        bit == read_bit(bits, pos + q)
        p1 == pos + q + 1
        r0 == IF b > 1 THEN read_n_bits(bits, p1, b - 1) ELSE 0
        p2 == IF b > 1 THEN p1 + (b - 1) ELSE p1
        extraBit == read_bit(bits, p2)
        r == IF r0 < cutoff THEN r0 ELSE (2 * r0 + extraBit) - cutoff
        p3 == IF r0 < cutoff THEN p2 ELSE p2 + 1
        mapped == q * blockM + r
        k == blockStart + i
        pixelValue == PredictAt(hdr.predictor, pixels, hdr.width, k)
                        + InlineMapToSigned(mapped)
        failed == [ok |-> FALSE, pos |-> pos, pixels |-> pixels]
    IN  IF i >= n THEN [ok |-> TRUE, pos |-> pos, pixels |-> pixels]
        ELSE IF Runaway(q) THEN failed
        ELSE IF bit = EOF THEN failed
        ELSE IF r0 >= cutoff /\ extraBit = EOF THEN failed
        ELSE ImageDecodePixels(bits, p3, hdr, blockM, blockStart, n, i + 1,
                               [pixels EXCEPT ![k + 1] = Max(0, Min(255, pixelValue))])

RECURSIVE ImageDecodeBlocks(_, _, _, _, _, _)

\* lines 467-535: a block whose pixel loop failed returns false, else the next block
ImageDecodeBlock(bits, hdr, blockStart, entered, blockM, d) ==
    IF ~d.ok THEN [ok |-> FALSE, pixels |-> d.pixels, pos |-> d.pos, entered |-> entered]
    ELSE ImageDecodeBlocks(bits, d.pos, hdr, blockStart + hdr.blockSize, d.pixels, entered)

\* the for loop over blocks, lines 437-535: [ok, pixels, pos, entered]; pos is the
\* number of bits read from the stream, entered lists the m, the start and the
\* size of each block entered
ImageDecodeBlocks(bits, pos, hdr, blockStart, pixels, entered) ==
    LET totalPixels == hdr.width * hdr.height
        currentBlockSize == Min(hdr.blockSize, totalPixels - blockStart)
        blockM == IF hdr.mFlag = 0 THEN read_n_bits(bits, pos, 8) ELSE hdr.mFlag
        p0 == IF hdr.mFlag = 0 THEN pos + 8 ELSE pos
        block == [m |-> blockM, blockStart |-> blockStart,
                  currentBlockSize |-> currentBlockSize]
    IN  IF blockStart >= totalPixels
        THEN [ok |-> TRUE, pixels |-> pixels, pos |-> pos, entered |-> entered]
        ELSE IF blockM = 0
        THEN [ok |-> FALSE, pixels |-> pixels, pos |-> p0, entered |-> Append(entered, block)]
        ELSE ImageDecodeBlock(bits, hdr, blockStart, Append(entered, block), blockM,
                              ImageDecodePixels(bits, p0, hdr, blockM, blockStart,
                                                currentBlockSize, 0, pixels))

\* lines 537-554: the PPM is created and written only when every block was
\* decoded; fields counts the header fields read, consumed the bits read
ImageWrite(hdr, d) ==
    IF ~d.ok
    THEN [ret |-> FALSE, out |-> NoPicture, fields |-> 6, created |-> FALSE,
          consumed |-> d.pos, entered |-> d.entered]
    ELSE [ret |-> TRUE, fields |-> 6, created |-> TRUE, consumed |-> d.pos,
          entered |-> d.entered,
          out |-> [width |-> hdr.width, height |-> hdr.height, pixels |-> d.pixels]]

\* lines 432-535: the blocks of a stream with header hdr
ImageDecodeFile(bits, hdr) ==
    ImageWrite(hdr, ImageDecodeBlocks(bits, ImageHeaderBits, hdr, 0,
                                      [k \in 1..(hdr.width * hdr.height) |-> 0],
                                      <<>>))

\* mutant: the magic number is read and not compared
decodeImage_AnyMagic(bits) == ImageDecodeFile(bits, ImageReadHeader(bits))

\* decodeImage: [ret, out, fields, created, consumed, entered]; a wrong magic number
\* returns before any other field is read
decodeImage(bits) ==
    IF read_n_bits(bits, 0, 32) # GIMG_MAGIC
    THEN [ret |-> FALSE, out |-> NoPicture, fields |-> 1, created |-> FALSE,
          consumed |-> 32, entered |-> <<>>]
    ELSE ImageDecodeFile(bits, ImageReadHeader(bits))

PixelValues == {0, 2, 5}
ImageMValues == {0, 1, 3, MaxAdaptiveM}
ImageBlockSizes == 0..MaxBlock

PictureShapes == {sh \in (1..MaxW) \X (1..MaxH) : sh[1] * sh[2] <= MaxPixels}

Pictures ==
    UNION {{[width |-> sh[1], height |-> sh[2], pixels |-> px] :
              px \in [1..(sh[1] * sh[2]) -> PixelValues]} : sh \in PictureShapes}

\* 3 x 3 pictures of black and white pixels whose LEFT_UP_DIFF residuals,
\* taken as one block, drive the estimator of m to its cap
BrightPictures ==
    {image \in {[width |-> 3, height |-> 3, pixels |-> px] : px \in [1..9 -> {0, 255}]} :
        MeanAtCap(SumAbs(ImageResiduals(image, LEFT_UP_DIFF, 0, 9)), 9)}

InitImage ==
    /\ IdleGolomb /\ IdleMap /\ IdleBits /\ IdleUnits
    /\ IdleMidSide /\ IdleAudio /\ IdleCodec
    /\ \/ \E image \in Pictures, predictor \in ImagePredictor, m \in ImageMValues,
             bs \in ImageBlockSizes :
            img = [NoImage EXCEPT !.stage = "input", !.image = image,
                                  !.predictor = predictor, !.m = m, !.blockSize = bs]
       \/ \E image \in BrightPictures :
            img = [NoImage EXCEPT !.stage = "input", !.image = image,
                                  !.predictor = LEFT_UP_DIFF, !.m = 0, !.blockSize = 9]

\* a call of encodeImage on the input image
ImageEncode ==
    /\ img.stage = "input"
    /\ \E e \in {encodeImage(img.image, img.predictor, img.m, img.blockSize)} :
         img' = [img EXCEPT !.stage = "encoded", !.ret = TRUE,
                            !.file = FileOf(e.file), !.encM = e.blockMs,
                            !.encRes = e.residuals, !.encStart = e.starts]
    /\ UNCHANGED <<golombVars, zmap, bitVars, ms, aud, cdc, unitVars>>

\* a call of decodeImage on the encoded file
ImageDecode ==
    /\ img.stage = "encoded"
    /\ \E d \in {decodeImage(FileBits(img.file))} :
         img' = [img EXCEPT !.stage = "decoded", !.ret = d.ret, !.out = d.out,
                            !.fields = d.fields, !.created = d.created,
                            !.consumed = d.consumed, !.decBlocks = d.entered,
                            !.decM = [i \in 1..Len(d.entered) |-> d.entered[i].m]]
    /\ UNCHANGED <<golombVars, zmap, bitVars, ms, aud, cdc, unitVars>>

NextImage == ImageEncode \/ ImageDecode

SpecImage == InitImage /\ [][NextImage]_vars

----------------------------------------------------------------------------
(* encodeImage with autoSelectPredictor, lossless_image.cpp 121-196: the
   trials of findBestPredictor one by one, then the final encoding *)

\* mutant: a trial as small as the best so far replaces it
Better_OrEqual(compressedSize, bestSize) == compressedSize <= bestSize

\* line 159
Better(compressedSize, bestSize) == compressedSize < bestSize

\* lines 145-147: the size in bytes of a closed file
FileSize(bits) == Len(bits) \div 8

\* whether a call of encodeImage can open its input and create its output
OpenOutcomes == BOOLEAN

SelectPixelValues == {0, 20}
SelectMValues == {0, 3}
SelectBlockSizes == {0}
SelectPictures ==
    {[width |-> 2, height |-> 2, pixels |-> px] : px \in [1..4 -> SelectPixelValues]}

InitSelect ==
    /\ IdleGolomb /\ IdleMap /\ IdleBits /\ IdleCodecs
    /\ prd = NoCall /\ lsy = NoField /\ dec = NoDecode
    /\ \E image \in SelectPictures, m \in SelectMValues, bs \in SelectBlockSizes :
         sel = [NoSelect EXCEPT !.stage = "trials", !.image = image, !.m = m,
                                !.blockSize = bs]

\* lines 135-166: one pass of the loop over predictors; the trial is written
\* to temp file p, measured, compared with the best so far and removed. A
\* trial that returns false has left no file (every return false of
\* encodeImage precedes the creation of the output) and is skipped
SelectTrial(ok) ==
    /\ sel.stage = "trials"
    /\ sel.p <= JPEG_LS
    /\ \E compressedSize \in {FileSize(encodeImage(sel.image, sel.p, sel.m,
                                                     sel.blockSize).file)} :
         sel' = IF ok
                THEN [sel EXCEPT !.p = @ + 1,
                                 !.sizes = Append(@, compressedSize),
                                 !.created = @ \cup {sel.p},
                                 !.temps = (@ \cup {sel.p}) \ {sel.p},
                                 !.bestSize = IF Better(compressedSize, @)
                                              THEN compressedSize ELSE @,
                                 !.bestPredictor = IF Better(compressedSize, sel.bestSize)
                                                   THEN sel.p ELSE @]
                ELSE [sel EXCEPT !.p = @ + 1, !.sizes = Append(@, -1)]
    /\ UNCHANGED <<golombVars, zmap, bitVars, codecVars, prd, lsy, dec>>

\* lines 176 and 195: the loop is over, bestPredictor becomes the predictor
SelectReturn ==
    /\ sel.stage = "trials"
    /\ sel.p > JPEG_LS
    /\ sel' = [sel EXCEPT !.stage = "chosen"]
    /\ UNCHANGED <<golombVars, zmap, bitVars, codecVars, prd, lsy, dec>>

\* lines 198-396: the encoding proper, with the chosen predictor
SelectEncode(ok) ==
    /\ sel.stage = "chosen"
    /\ sel' = IF ok
              THEN [sel EXCEPT !.stage = "encoded", !.ret = TRUE,
                               !.file = FileOf(encodeImage(sel.image, sel.bestPredictor,
                                                           sel.m, sel.blockSize).file)]
              ELSE [sel EXCEPT !.stage = "failed"]
    /\ UNCHANGED <<golombVars, zmap, bitVars, codecVars, prd, lsy, dec>>

NextSelect ==
    \/ \E ok \in OpenOutcomes : SelectTrial(ok)
    \/ SelectReturn
    \/ \E ok \in OpenOutcomes : SelectEncode(ok)

SpecSelect == InitSelect /\ [][NextSelect]_vars

----------------------------------------------------------------------------
(* Lossy codec, lossy_codec_enc.cpp and lossy_codec_dec.cpp: the field of
   one quantized coefficient *)

\* lines 142-147 of the encoder: shifts until temp is 0
RECURSIVE ShiftCount(_)
ShiftCount(temp) == IF temp > 0 THEN 1 + ShiftCount(temp \div 2) ELSE 0

\* lines 149-152 of the encoder
MaxBitsNeeded == 20
BitsNeeded(coeff) == Max(1, Min(MaxBitsNeeded, ShiftCount(coeff)))

\* lines 134-157 of the encoder: sign bit, 5-bit count, the count low bits
\* of the magnitude
LossyWriteField(bits, q) ==
    LET coeff == IF q < 0 THEN -q ELSE q
        bits_needed == BitsNeeded(coeff)
    IN  write_n_bits(write_n_bits(write_bit(bits, IF q < 0 THEN 1 ELSE 0),
                                  bits_needed, 5),
                     coeff, bits_needed)

\* lines 106-119 of the decoder: [eof, q, pos], the coefficient read at pos
\* and the position after it
LossyReadField(bits, pos) ==
    LET sign_bit == read_bit(bits, pos)
        count == read_n_bits(bits, pos + 1, 5)
        bits_needed == IF count = 0 THEN 1 ELSE count
        magnitude == read_n_bits(bits, pos + 6, bits_needed)
    IN  IF sign_bit = EOF THEN [eof |-> TRUE, q |-> 0, pos |-> pos]
        ELSE [eof |-> FALSE, q |-> IF sign_bit = 1 THEN -magnitude ELSE magnitude,
              pos |-> pos + 6 + bits_needed]

\* coefficients tried: the small ones and those around each power of two up
\* to 2^21
LossyCoeffs ==
    (-40..40) \cup UNION {{2^k - 1, 2^k, 2^k + 1, -(2^k - 1), -(2^k), -(2^k + 1)} :
                             k \in 6..21}

\* bits that follow the field in the stream
LossyRests == {<<>>, <<1>>, <<0, 1, 1, 0, 1, 0, 1>>}

InitLossy ==
    /\ IdleGolomb /\ IdleMap /\ IdleBits /\ IdleCodecs
    /\ prd = NoCall /\ sel = NoSelect /\ dec = NoDecode
    /\ \E q \in LossyCoeffs, rest \in LossyRests :
         lsy = [NoField EXCEPT !.stage = "input", !.coeff = q, !.rest = rest]

\* one pass of the encoder's loop over the quantized coefficients
LossyWrite ==
    /\ lsy.stage = "input"
    /\ \E field \in {LossyWriteField(<<>>, lsy.coeff)} :
         lsy' = [lsy EXCEPT !.stage = "written", !.written = Len(field),
                            !.stream = field \o lsy.rest]
    /\ UNCHANGED <<golombVars, zmap, bitVars, codecVars, prd, sel, dec>>

\* one pass of the decoder's loop over the coefficients of a block
LossyRead ==
    /\ lsy.stage = "written"
    /\ \E f \in {LossyReadField(lsy.stream, 0)} :
         lsy' = [lsy EXCEPT !.stage = "read", !.eof = f.eof, !.got = f.q,
                            !.consumed = f.pos]
    /\ UNCHANGED <<golombVars, zmap, bitVars, codecVars, prd, sel, dec>>

NextLossy == LossyWrite \/ LossyRead

SpecLossy == InitLossy /\ [][NextLossy]_vars

----------------------------------------------------------------------------
(* decodeImage of lossless_image.cpp on a stream that need not come from
   encodeImage, one pass of the block loop at a time; pc is the position in
   the function: "open" before the header is read, "test" at the loop
   condition, "body" inside the loop, "returned" after a return *)

DecodeMagics == {GIMG_MAGIC, 0}
DecodeWidths == 0..2
DecodeHeights == 1..2
DecodePredictors == {NONE, JPEG_LS}
DecodeMFlags == {0, 1, 3}
DecodeBlockSizes == {0, 1, 3}

\* what follows the header: nothing, or a byte and two more bits
DecodePayloads ==
    {<<>>} \cup {BitsOf(v, 8) \o t : v \in {0, 1, 3}, t \in [1..2 -> {0, 1}]}

\* the header of a stream, field by field as decodeImage reads it
StreamHeader(magic, width, height, predictor, mFlag, blockSize) ==
    write_n_bits(write_n_bits(write_n_bits(write_n_bits(write_n_bits(
        write_n_bits(<<>>, magic, 32), width, 32), height, 32), predictor, 8),
        mFlag, 8), blockSize, 32)

InitDecode ==
    /\ IdleGolomb /\ IdleMap /\ IdleBits /\ IdleCodecs
    /\ prd = NoCall /\ sel = NoSelect /\ lsy = NoField
    /\ \E magic \in DecodeMagics, width \in DecodeWidths, height \in DecodeHeights,
          predictor \in DecodePredictors, mFlag \in DecodeMFlags,
          blockSize \in DecodeBlockSizes, payload \in DecodePayloads :
         dec = [NoDecode EXCEPT
                  !.pc = "open",
                  !.bits = StreamHeader(magic, width, height, predictor, mFlag,
                                        blockSize) \o payload]

\* lines 410-434: the magic number is checked, the header read and the
\* pixel buffer allocated
DecodeOpen ==
    /\ dec.pc = "open"
    /\ \E hdr \in {ImageReadHeader(dec.bits)} :
         dec' = IF hdr.magic # GIMG_MAGIC
                THEN [dec EXCEPT !.pc = "returned", !.ret = FALSE, !.pos = 32]
                ELSE [dec EXCEPT !.pc = "test", !.width = hdr.width,
                                 !.height = hdr.height, !.predictor = hdr.predictor,
                                 !.mFlag = hdr.mFlag, !.blockSize = hdr.blockSize,
                                 !.blockStart = 0, !.pos = ImageHeaderBits,
                                 !.pixels = [k \in 1..(hdr.width * hdr.height) |-> 0]]
    /\ UNCHANGED <<golombVars, zmap, bitVars, codecVars, prd, sel, lsy>>

\* line 437, the condition blockStart < totalPixels; when it fails the
\* image is written and the call returns true (lines 537-554)
DecodeTest ==
    /\ dec.pc = "test"
    /\ dec' = IF dec.blockStart < dec.width * dec.height
              THEN [dec EXCEPT !.pc = "body"]
              ELSE [dec EXCEPT !.pc = "returned", !.ret = TRUE]
    /\ UNCHANGED <<golombVars, zmap, bitVars, codecVars, prd, sel, lsy>>

\* lines 438-535 and the increment of line 437: the block's m, its pixels,
\* then blockStart += blockSize
DecodeBody ==
    /\ dec.pc = "body"
    /\ LET hdr == [width |-> dec.width, height |-> dec.height,
                   predictor |-> dec.predictor, mFlag |-> dec.mFlag,
                   blockSize |-> dec.blockSize]
           currentBlockSize == Min(dec.blockSize,
                                   dec.width * dec.height - dec.blockStart)
           blockM == IF dec.mFlag = 0 THEN read_n_bits(dec.bits, dec.pos, 8)
                     ELSE dec.mFlag
           p0 == IF dec.mFlag = 0 THEN dec.pos + 8 ELSE dec.pos
       IN  IF blockM = 0
           THEN dec' = [dec EXCEPT !.pc = "returned", !.ret = FALSE, !.pos = p0]
           ELSE \E d \in {ImageDecodePixels(dec.bits, p0, hdr, blockM, dec.blockStart,
                                            currentBlockSize, 0, dec.pixels)} :
                  dec' = IF ~d.ok
                         THEN [dec EXCEPT !.pc = "returned", !.ret = FALSE,
                                          !.pos = d.pos, !.pixels = d.pixels]
                         ELSE [dec EXCEPT !.pc = "test", !.pos = d.pos,
                                          !.pixels = d.pixels,
                                          !.blockStart = @ + dec.blockSize]
    /\ UNCHANGED <<golombVars, zmap, bitVars, codecVars, prd, sel, lsy>>

NextDecode == DecodeOpen \/ DecodeTest \/ DecodeBody

SpecDecode == InitDecode /\ [][NextDecode]_vars

\* the call is not suspended: a step that can be taken is taken
SpecDecodeFair == SpecDecode /\ WF_vars(NextDecode)

----------------------------------------------------------------------------
(* Decoders on streams that no encoder call produced: a well-formed header,
   one block header and then arbitrary payload bits, or one long unary run *)

BitStrings(n) == [1..n -> {0, 1}]
Payloads == UNION {BitStrings(n) : n \in 0..MaxPayload}

\* the file that continues head with a unary run of z zeros, its terminator
\* and two remainder bits, padded to whole bytes
LongRun(head, z) ==
    [head |-> head, zeros |-> z,
     tail |-> <<1, 0, 0>> \o Zeros((8 - ((Len(head) + z + 3) % 8)) % 8)]
RunLengths == {RunawayLimit - 1, RunawayLimit, RunawayLimit + 1}

\* a mono .golomb file of the given frame count, order 0, whose first block
\* header says m and count, followed by payload
StreamAudio(frames, m, count, payload) ==
    close(write_n_bits(write_n_bits(
              AudioHeader([samplerate |-> 44100, channels |-> 1,
                           samples |-> Zeros(frames)], 1, 0),
              m, 16), count, 32) \o payload)

MagicValues == {GIMG_MAGIC, GBLK_MAGIC, 0}

\* an image file of width 1 with the given magic number, height, m field and
\* block size, predictor NONE, followed by payload
StreamImage(magic, height, mFlag, blockSize, payload) ==
    close(write_n_bits(write_n_bits(write_n_bits(write_n_bits(write_n_bits(
              write_n_bits(<<>>, magic, 32), 1, 32), height, 32), NONE, 8), mFlag, 8),
              blockSize, 32) \o payload)

InitStreams ==
    /\ IdleGolomb /\ IdleMap /\ IdleBits /\ IdleUnits /\ IdleMidSide /\ IdleCodec
    /\ \/ /\ IdleImage
          /\ \/ \E frames \in 1..2, m \in {0, 1, 3}, count \in 1..2, payload \in Payloads :
                  aud = [NoAudio EXCEPT !.stage = "encoded",
                                        !.file = FileOf(StreamAudio(frames, m, count, payload))]
             \/ \E m \in {1, 4}, z \in RunLengths :
                  aud = [NoAudio EXCEPT !.stage = "encoded",
                                        !.file = LongRun(StreamAudio(1, m, 1, <<>>), z)]
       \/ /\ IdleAudio
          /\ \/ \E magic \in MagicValues, height \in 1..2, mFlag \in {0, 3},
                   payload \in Payloads :
                  img = [NoImage EXCEPT !.stage = "encoded",
                                        !.file = FileOf(StreamImage(magic, height, mFlag, 1, payload))]
             \/ \E m \in {1, 4}, z \in RunLengths :
                  img = [NoImage EXCEPT !.stage = "encoded",
                                        !.file = LongRun(StreamImage(GIMG_MAGIC, 1, m, 1, <<>>), z)]

NextStreams == (\E stale \in StaleValues : AudioDecode(stale)) \/ ImageDecode

SpecStreams == InitStreams /\ [][NextStreams]_vars

----------------------------------------------------------------------------
(* Claims about the Golomb class *)

\* C1 (as claimed): in INTERLEAVING mode, for every m >= 1 the coder accepts,
\* decoding the codeword of n (possibly followed by more bits) raises no
\* exception, returns n and sets bitsUsed to the codeword's length.
C1_RoundTripAnyM ==
    (gres.op = "decode" /\ golomb.mode = INTERLEAVING /\ gword.mode = INTERLEAVING
        /\ gword.m = golomb.m)
    => (gres.exc = "none" /\ gres.value = gword.n /\ gres.bitsUsed = Len(gword.bits))

\* the codewords the code produces for m = 4, and those the claim lists
CodewordsM4 == [n \in {0, 1, -1, 5, -3} |->
    CASE n = 0 -> <<1, 0, 0>>
      [] n = 1 -> <<1, 1, 0>>
      [] n = -1 -> <<1, 0, 1>>
      [] n = 5 -> <<0, 0, 1, 1, 0>>
      [] n = -3 -> <<0, 1, 0, 1>>]
ClaimedCodewordsM4 == [n \in {0, 1, -1, 5, -3} |->
    CASE n = 0 -> <<1, 0>>
      [] n = 1 -> <<1, 1, 0>>
      [] n = -1 -> <<1, 1, 1, 0>>
      [] n = 5 -> <<0, 0, 1, 0, 0>>
      [] n = -3 -> <<0, 0, 1, 1, 0, 0>>]

IsWordOf(m, mode) == gword.m = m /\ gword.mode = mode
DecodedSameCoder == gres.op = "decode" /\ golomb.m = gword.m /\ golomb.mode = gword.mode

CodewordsM1 == [n \in {0, 1, -1} |->
    CASE n = 0 -> <<1>> [] n = 1 -> <<0, 0, 1>> [] n = -1 -> <<0, 1>>]
ClaimedCodewordsM1 == [n \in {0, 1, -1} |->
    CASE n = 0 -> <<1>> [] n = 1 -> <<0, 1, 1>> [] n = -1 -> <<0, 1, 1, 1>>]

C9_ZeroRejected ==
    [][((\E mode \in NegativeMode : Construct(0, mode)) \/ SetM(0))
        => (gres'.exc = "invalid_argument" /\ golomb' = golomb)]_vars

\* C9 witness: setM(0) has thrown on a constructed coder
C9_Witness ==
    golomb.constructed /\ gres.op = "setM" /\ gres.arg = 0
        /\ gres.exc = "invalid_argument"

\* C5 (as claimed): mapping to unsigned and back returns n for every int32 n, in
\* the Golomb class and in the codecs' inline mappings.
C5_InterleavingLaw ==
    zmap.impl # "none" => (~zmap.trapped /\ zmap.back = zmap.n)

----------------------------------------------------------------------------
(* Claims about the bit writer and reader *)

RECURSIVE WidthSum(_, _)
WidthSum(log, k) == IF k = 0 THEN 0 ELSE WidthSum(log, k - 1) + log[k].width

----------------------------------------------------------------------------
(* Claims about the lossless audio codec *)

\* C4: a stereo frame of 16-bit samples taken through the encoder's mid/side
\* transform (stored as 16-bit values) and the decoder's inverse comes back as
\* the same (L, R).
C4_MidSideInvertible ==
    /\ ms.stage # "none" => (ms.mid \in -(2^15)..(2^15 - 1) /\ ms.side \in -(2^15)..(2^15 - 1))
    /\ ms.stage = "decoded" => (ms.L2 = ms.L /\ ms.R2 = ms.R)

\* C4 witness: the extreme frame (32767, -32768), whose side wraps to -1, decoded
C4_Witness ==
    ms.stage = "decoded" /\ ms.L = 2^15 - 1 /\ ms.R = -(2^15) /\ ms.side = -1
        /\ ms.L2 = 2^15 - 1

\* C2: for a 16-bit wav with 1 or 2 channels, every predictor order 0..3,
\* every block length and every m (adaptive m = 0 included), encoding with
\* lossless_audio's encodeWavWithGolomb completes and decodeGolombToWav of its
\* output returns true and yields the same sample rate, channel count, frame
\* count and samples.
C2_AudioRoundTrip ==
    /\ aud.stage # "crashed"
    /\ aud.stage = "decoded" => (aud.ret /\ aud.out = aud.wav)

\* the residuals of all blocks of the encoded file, in order
RECURSIVE AllResiduals(_)
AllResiduals(blocks) ==
    IF Len(blocks) = 0 THEN <<>> ELSE Head(blocks).residuals \o AllResiduals(Tail(blocks))

IsExample == aud.wav.channels = 1 /\ aud.wav.samples = <<100, 100, 100, 100>> /\ aud.order = 2

----------------------------------------------------------------------------
(* Claims about the block codec (lossless_codec.cpp) *)

\* C10: the self-test of the block codec (encode with adaptive m = 0 and
\* block length 4096, decode, compare) finds the decoded wav identical to the
\* input: same frames, channels, sample rate and samples.
C10_SelfTestRoundTrip ==
    (cdc.stage = "decoded" /\ cdc.m = 0 /\ cdc.blockSamples = SelfTestBlock)
        => (cdc.ret /\ compareWavFiles(cdc.wav, cdc.out))

----------------------------------------------------------------------------
(* Claims about the image codec (lossless_image.cpp) *)

\* C3: for an 8-bit grayscale image, every predictor 0..8, adaptive m and
\* every fixed m > 0, and every block size, decodeImage of encodeImage's
\* output succeeds and reproduces the image pixel for pixel.
C3_ImageRoundTrip ==
    img.stage = "decoded" => (img.ret /\ img.out = img.image)

----------------------------------------------------------------------------
(* Claims about the decoders on damaged or foreign streams *)

\* the audio decoder left its block loop at a block header whose m is 0,
\* before frames * channels samples were produced
StoppedAtZeroM ==
    /\ aud.end = "zero_header"
    /\ aud.decBlocks[Len(aud.decBlocks)].m = 0

\* the stream ended inside a residual: in its unary run or at its extra
\* remainder bit
EofMidResidual ==
    \E i \in 1..Len(aud.decBlocks) : aud.decBlocks[i].eof \in {"unary", "extra"}

\* C12: the audio decoder returns false when it reads a block header with
\* m = 0 before frames * channels samples have been produced, and when the
\* stream ends in the middle of a residual (unary part or extra remainder bit).
C12_CorruptionFatal ==
    (aud.stage = "decoded" /\ (StoppedAtZeroM \/ EofMidResidual)) => ~aud.ret

\* C13: in decodeGolombToWav and in decodeImage a unary quotient of more than
\* 100000 zero bits makes the call return false, and a quotient of at most
\* 100000 zeros does not: a stream that is well formed but for one long run
\* is refused exactly when the run is longer than 100000, and the audio
\* decoder returns false on no other stream.
C13_RunawayLimit ==
    /\ aud.stage = "decoded" => (aud.ret <=> aud.file.zeros <= RunawayLimit)
    /\ (img.stage = "decoded" /\ img.file.zeros > 0)
         => (img.ret <=> img.file.zeros <= RunawayLimit)

\* C13 witness: a run of 100001 zeros was refused by the audio decoder
C13_Witness ==
    aud.stage = "decoded" /\ aud.file.zeros = RunawayLimit + 1 /\ ~aud.ret
        /\ aud.end = "runaway"

\* the magic number at the head of the image file
FileMagic == read_n_bits(img.file.head, 0, 32)

\* C14: decodeImage on a file whose first 32 bits are not 0x47494D47 returns
\* false, reads no further header field and neither creates nor writes the
\* output image.
C14_BadMagicRejected ==
    (img.stage = "decoded" /\ FileMagic # GIMG_MAGIC)
        => (~img.ret /\ img.fields = 1 /\ ~img.created /\ img.out = NoPicture)

\* C14 witness: a file with the block codec's magic number, a complete header
\* and a decodable payload was refused
C14_Witness ==
    /\ img.stage = "decoded" /\ FileMagic = GBLK_MAGIC /\ ~img.ret
    /\ decodeImage_AnyMagic(FileBits(img.file)).ret

----------------------------------------------------------------------------
(* Claims about the Golomb codeword and the parameter b *)

\* w is the Golomb codeword of u for parameter m as the design document lays
\* it out: q = u / m zeros, a 1, then with b = ceil(log2 m) and c = 2^b - m
\* the remainder r = u mod m in b - 1 bits when r < c, else r + c in b bits
IsCodeword(w, m, u) ==
    LET q == u \div m
        r == u % m
        b == CeilLog2(m)
        c == 2^b - m
        width == IF r < c THEN b - 1 ELSE b
    IN  /\ Len(w) = q + 1 + width
        /\ \A i \in 1..q : w[i] = 0
        /\ w[q + 1] = 1
        /\ BitsValue(SubSeq(w, q + 2, Len(w))) = (IF r < c THEN r ELSE r + c)

\* C15: in SIGN_MAGNITUDE mode encode(n) is one sign bit (1 iff n < 0)
\* followed by the Golomb codeword of |n|, and for every m >= 1
\* decode(encode(n)) returns n with bitsUsed equal to the codeword's length.
C15_SignMagnitude ==
    /\ (gword.mode = SIGN_MAGNITUDE /\ gword.m # 0)
         => /\ Head(gword.bits) = (IF gword.n < 0 THEN 1 ELSE 0)
            /\ IsCodeword(Tail(gword.bits), gword.m, Abs(gword.n))
    /\ (gres.op = "decode" /\ golomb.mode = SIGN_MAGNITUDE
           /\ gword.mode = SIGN_MAGNITUDE /\ gword.m = golomb.m)
         => (gres.exc = "none" /\ gres.value = gword.n
               /\ gres.bitsUsed = Len(gword.bits))

\* C16: after construction or setM the stored b equals ceil(log2(m)) of the
\* current m and is at least 1 (b = 1 when m = 1).
C16_BAtLeastOne ==
    golomb.constructed => (golomb.b = CeilLog2(golomb.m) /\ golomb.b >= 1)

\* the codeword without the sign bit of SIGN_MAGNITUDE mode
Unsigned(word) == IF word.mode = SIGN_MAGNITUDE THEN Tail(word.bits) ELSE word.bits

\* C17: for every m >= 1 and u >= 0 the codeword of u is q = u / m zeros, a
\* 1, then r = u mod m in b - 1 bits when r < c = 2^b - m, else r + c in b
\* bits; its length is q + 1 + (b - 1 or b).
C17_CodewordStructure ==
    gword.m # 0 => IsCodeword(Unsigned(gword), gword.m, mapToUnsigned(gword.mode, gword.n))

\* C17 witness: m = 5 (b = 3, c = 3) and u = 1: one quotient bit and the
\* remainder 1 in two bits
C17_Witness ==
    gword.m = 5 /\ gword.mode = INTERLEAVING /\ gword.n = -1 /\ gword.bits = <<1, 0, 1>>

----------------------------------------------------------------------------
(* Claims about the image codec's block parameter *)

\* the residuals of an image under predictor NONE coded in unary alone: for
\* each pixel p the mapped value 2 * p as zeros, then the terminator
RECURSIVE UnaryOnly(_)
UnaryOnly(pixels) ==
    IF Len(pixels) = 0 THEN <<>>
    ELSE Zeros(2 * Head(pixels)) \o <<1>> \o UnaryOnly(Tail(pixels))

\* C18: with block parameter m = 1 the image encoder emits no remainder bit
\* for any residual, and the decoder reads no bit after the unary terminator:
\* the file is the header followed by the unary codes alone, and the decoder
\* consumes exactly the header and those codes.
C18_NoRemainderBits ==
    (img.m = 1 /\ img.predictor = NONE /\ img.stage \in {"encoded", "decoded"})
        => /\ FileBits(img.file)
                = close(SubSeq(FileBits(img.file), 1, ImageHeaderBits)
                          \o UnaryOnly(img.image.pixels))
           /\ img.stage = "decoded"
                => img.consumed = ImageHeaderBits + Len(UnaryOnly(img.image.pixels))

----------------------------------------------------------------------------
(* Claims about the adaptive block parameter *)

\* C19: in adaptive mode the audio encoder's m of every block lies in
\* [1, 65535], a block of all-zero residuals included, and the encoder never
\* divides by m = 0.
C19_AudioAdaptiveM ==
    aud.m = 0
        => /\ \A i \in 1..Len(aud.encBlocks) : aud.encBlocks[i].m \in 1..65535
           /\ aud.stage # "crashed"

\* C20: in adaptive mode the image encoder's estimate of m is clamped to
\* [1, 4096] for every block, and the m the decoder reads from the block's
\* 8-bit field is the m the encoder coded the block with
C20_ImageAdaptiveM ==
    (img.stage = "decoded" /\ img.m = 0) =>
        /\ \A i \in 1..Len(img.encM) : img.encM[i] \in 1..4096
        /\ img.decM = img.encM


\* the m flag the decoder finds in the header of the encoded file
FileMFlag == ImageReadHeader(FileBits(img.file)).mFlag

\* C21: for every fixed m > 0 the image encoder codes every block with that
\* m, and the decoder finds in the header's flag byte a nonzero value equal to
\* that m and decodes every block with it
C21_FixedMRecovered ==
    (img.stage = "decoded" /\ img.m > 0) =>
        /\ \A i \in 1..Len(img.encM) : img.encM[i] = img.m
        /\ FileMFlag # 0 /\ FileMFlag = img.m
        /\ Len(img.decM) = Len(img.encM)
        /\ \A i \in 1..Len(img.decM) : img.decM[i] = img.m


\* the stated value of the prediction of order k on history h, before the clamp
StatedPrediction(k, h) ==
    CASE k = 0 -> 0
      [] k = 1 -> h[1]
      [] k = 2 -> 2 * h[1] - h[2]
      [] k = 3 -> (3 * h[1] - 3 * h[2]) + h[3]

\* C22: computePrediction on a history of 16-bit samples computes 0, h[0],
\* 2 h[0] - h[1] or 3 h[0] - 3 h[1] + h[2] for the orders 0..3 with every
\* product, partial sum and the sum inside the 32-bit signed range, and
\* returns that value clamped to [-32768, 32767]
C22_PredictionClamped ==
    (prd.stage = "returned" /\ prd.order \in 0..3) =>
        LET h == prd.history
            v == StatedPrediction(prd.order, h)
        IN  /\ prd.sum = v
            /\ \A t \in {3 * h[1], 3 * h[2], 3 * h[1] - 3 * h[2], 2 * h[1], v} :
                  t \in Int32Min..Int32Max
            /\ prd.pred = (IF v < -32768 THEN -32768 ELSE IF v > 32767 THEN 32767 ELSE v)
            /\ prd.pred \in -32768..32767

\* a call of order 3 whose sum is above the 16-bit range and was clamped
C22_Witness ==
    /\ prd.stage = "returned" /\ prd.order = 3
    /\ prd.sum > 32767 /\ prd.pred = 32767


\* the sequences of a list, one after the other
RECURSIVE Flatten(_)
Flatten(seqs) == IF Len(seqs) = 0 THEN <<>> ELSE Head(seqs) \o Flatten(Tail(seqs))

\* the prediction the encoder made for pixel index k (0-based): the pixel
\* minus the residual it coded
EncoderPrediction(k) == img.image.pixels[k + 1] - Flatten(img.encRes)[k + 1]

\* the median edge detector on the neighbours a (left), b (up), c (up-left)
MedianEdge(a, b, c) ==
    IF c >= Max(a, b) THEN Min(a, b)
    ELSE IF c <= Min(a, b) THEN Max(a, b)
    ELSE (a + b) - c

\* the stated JPEG-LS prediction of pixel index k, by position
StatedJpegLS(pixels, width, k) ==
    LET x == k % width
        y == k \div width
    IN  IF x = 0 /\ y = 0 THEN 0
        ELSE IF y = 0 THEN pixels[k]
        ELSE IF x = 0 THEN pixels[(k - width) + 1]
        ELSE MedianEdge(pixels[k], pixels[(k - width) + 1], pixels[k - width])

\* C23: with the JPEG-LS predictor the prediction of every interior pixel is
\* the median edge detector of its neighbours whatever their values, and the
\* degraded rules (0 at the corner, a on the first row, b on the first
\* column) apply by position only
C23_JpegLSByPosition ==
    (img.stage = "encoded" /\ img.predictor = JPEG_LS) =>
        \A k \in 0..(Len(img.image.pixels) - 1) :
            EncoderPrediction(k) = StatedJpegLS(img.image.pixels, img.image.width, k)


\* the histories the audio encoder and the audio decoder predicted from, one
\* per sample position, over all blocks
EncoderHistories == Flatten([i \in 1..Len(aud.encBlocks) |-> aud.encBlocks[i].used])
DecoderHistories == Flatten([i \in 1..Len(aud.decBlocks) |-> aud.decBlocks[i].used])

\* the last three samples of the channel of position k (0-based) in the
\* interleaved sequence e of numCh channels, newest first, zeros before the start
LastThree(e, numCh, k) ==
    [j \in 1..3 |-> IF k - j * numCh >= 0 THEN e[(k - j * numCh) + 1] ELSE 0]

\* C24: the audio encoder's history starts at zeros and is carried over the
\* block boundaries, being at every sample position the last three samples of
\* that channel, and the decoder's history at every position equals the
\* encoder's
C24_HistoryLockStep ==
    aud.stage = "decoded" =>
        LET e == EncodingChannels(aud.wav.samples, aud.wav.channels)
        IN  /\ Len(EncoderHistories) = Len(e)
            /\ \A k \in 0..(Len(e) - 1) :
                  EncoderHistories[k + 1] = LastThree(e, aud.wav.channels, k)
            /\ DecoderHistories = EncoderHistories


\* remainder bits the audio encoder writes after the unary part of r
RemainderBits(r, blockM) ==
    IF r < AudioCutoff(blockM) THEN (IF AudioB(blockM) > 1 THEN AudioB(blockM) - 1 ELSE 0)
    ELSE AudioB(blockM)

\* from residual j of block i, written at bit position pos of the file, on:
\* every residual is preceded by floor(u / m) zero bits and a 1 bit
RECURSIVE UnaryRunsExact(_, _, _, _, _)
UnaryRunsExact(bits, blocks, i, j, pos) ==
    IF i > Len(blocks) THEN TRUE
    ELSE IF j > Len(blocks[i].residuals)
    THEN UnaryRunsExact(bits, blocks, i + 1, 1, pos + 48)
    ELSE LET u == InlineMapToUnsigned(blocks[i].residuals[j])
             q == u \div blocks[i].m
         IN  /\ ZeroRun(bits, pos) = q
             /\ read_bit(bits, pos + q) = 1
             /\ UnaryRunsExact(bits, blocks, i, j + 1,
                               (pos + q + 1) + RemainderBits(u % blocks[i].m, blocks[i].m))

\* C25: for every residual and every block m >= 1 the audio encoder emits
\* exactly floor(u / m) zero bits before the terminating 1 bit, u being the
\* interleaved residual, whatever the residual's magnitude
C25_UnaryNeverShortened ==
    (aud.stage = "encoded" /\ \A i \in 1..Len(aud.encBlocks) : aud.encBlocks[i].m >= 1) =>
        UnaryRunsExact(FileBits(aud.file), aud.encBlocks, 1, 1, AudioHeaderBits + 48)

\* bits encodeWavWithGolomb emits for one residual under blockM
EmittedBits(resid, blockM) == Len(AudioEncodeResidual(<<>>, resid, blockM))

\* bits decodeGolombToWav consumes for the one residual that starts at pos
ConsumedBits(bits, pos, blockM) ==
    AudioDecodeSamples(bits, pos, NewHistory(1), blockM, 1, 0, 1, 0, <<>>, <<>>).pos - pos

\* from residual j of block i, written at bit position pos of the file, on:
\* the decoder reading at the residual's write position consumes the bits
\* the encoder emitted for it
RECURSIVE MirrorFrom(_, _, _, _, _)
MirrorFrom(bits, blocks, i, j, pos) ==
    IF i > Len(blocks) THEN TRUE
    ELSE IF j > Len(blocks[i].residuals)
    THEN MirrorFrom(bits, blocks, i + 1, 1, pos + 48)
    ELSE LET n == EmittedBits(blocks[i].residuals[j], blocks[i].m)
         IN  /\ ConsumedBits(bits, pos, blocks[i].m) = n
             /\ MirrorFrom(bits, blocks, i, j + 1, pos + n)

\* C26: for every block m in [1, 65535], m = 1 included, the audio decoder
\* consumes for each residual exactly the bits the encoder emitted for it, so
\* the read position after k residuals is the write position after k residuals
C26_BitLevelMirror ==
    (aud.stage = "encoded" /\ \A i \in 1..Len(aud.encBlocks) : aud.encBlocks[i].m >= 1) =>
        MirrorFrom(FileBits(aud.file), aud.encBlocks, 1, 1, AudioHeaderBits + 48)

\* the block size field of the encoded image file's header
FileBlockSize == ImageReadHeader(FileBits(img.file)).blockSize

\* blocks of the given starts and sizes cover the pixel indices 0..total-1 in
\* order without gap or overlap, each size pixels long but for a shorter last one
Partition(starts, sizes, size, total) ==
    /\ Len(starts) = Len(sizes)
    /\ \A k \in 0..(total - 1) :
          Cardinality({i \in 1..Len(starts) :
                         starts[i] <= k /\ k < starts[i] + sizes[i]}) = 1
    /\ \A i \in 1..Len(starts) :
          /\ starts[i] = (i - 1) * size
          /\ sizes[i] >= 1
          /\ starts[i] + sizes[i] <= total
          /\ i < Len(starts) => sizes[i] = size
          /\ i = Len(starts) => sizes[i] <= size

\* C27: a requested block size of 0 is replaced by the width and the header
\* stores that effective size; the encoder's blocks partition the pixels in
\* raster order, every pixel index encoded once, every block of the effective
\* size but for a shorter last one; each block the decoder enters has the
\* boundaries of the encoder's block of that index, and a decoder that
\* returns true has entered them all
C27_BlockFraming ==
    img.stage \in {"encoded", "decoded"} =>
        LET size == IF img.blockSize = 0 THEN img.image.width ELSE img.blockSize
            sizes == [i \in 1..Len(img.encRes) |-> Len(img.encRes[i])]
        IN  /\ FileBlockSize = size
            /\ Partition(img.encStart, sizes, size, img.image.width * img.image.height)
            /\ img.stage = "decoded" =>
                  /\ Len(img.decBlocks) <= Len(img.encStart)
                  /\ img.ret => Len(img.decBlocks) = Len(img.encStart)
                  /\ \A i \in 1..Len(img.decBlocks) :
                        /\ img.decBlocks[i].blockStart = img.encStart[i]
                        /\ img.decBlocks[i].currentBlockSize = sizes[i]

\* a picture of two rows encoded with block size 0 was decoded row by row
C27_Witness ==
    /\ img.stage = "decoded" /\ img.ret
    /\ img.blockSize = 0 /\ img.image.width = 2 /\ img.image.height = 2
    /\ Len(img.decBlocks) = 2
    /\ img.decBlocks[2].blockStart = 2

\* trials of findBestPredictor that succeeded
Successful == {q \in NONE..JPEG_LS : sel.sizes[q + 1] >= 0}

\* C28: findBestPredictor has tried the predictors 0..8 in sequence and
\* returns one whose trial is no larger than any other successful trial, the
\* lowest index among equal minima; every temp file a trial created has been
\* removed, and the header of the final file records the returned index
C28_AutoSelect ==
    sel.stage \in {"chosen", "encoded"} =>
        /\ Len(sel.sizes) = 9
        /\ Successful # {} =>
              /\ sel.bestPredictor \in Successful
              /\ \A q \in Successful :
                    /\ sel.sizes[sel.bestPredictor + 1] <= sel.sizes[q + 1]
                    /\ sel.sizes[q + 1] = sel.sizes[sel.bestPredictor + 1]
                          => sel.bestPredictor <= q
        /\ sel.created = Successful
        /\ sel.temps = {}
        /\ sel.stage = "encoded" =>
              ImageReadHeader(FileBits(sel.file)).predictor = sel.bestPredictor

\* all nine trials succeeded, the smallest trial is shared by two predictors
\* neither of which is the first, and the final file is written
C28_Witness ==
    /\ sel.stage = "encoded"
    /\ Successful = NONE..JPEG_LS
    /\ sel.bestPredictor > NONE
    /\ \E q \in (sel.bestPredictor + 1)..JPEG_LS :
          sel.sizes[q + 1] = sel.sizes[sel.bestPredictor + 1]

\* C29: for every quantized coefficient q the field is a sign bit, a 5-bit
\* count of magnitude bits in [1, 20] and that many bits holding |q| (q = 0
\* is sign 0, count 1, magnitude 0), and the decoder reading the field gets q
\* back and consumes exactly the bits written
C29_CoefficientField ==
    lsy.stage = "read" =>
        LET count == BitsValue(SubSeq(lsy.stream, 2, 6))
            magnitude == BitsValue(SubSeq(lsy.stream, 7, lsy.written))
        IN  /\ lsy.stream[1] = (IF lsy.coeff < 0 THEN 1 ELSE 0)
            /\ count \in 1..20
            /\ lsy.written = 6 + count
            /\ magnitude = Abs(lsy.coeff)
            /\ lsy.coeff = 0 => SubSeq(lsy.stream, 1, 7) = <<0, 0, 0, 0, 0, 1, 0>>
            /\ ~lsy.eof
            /\ lsy.got = lsy.coeff
            /\ lsy.consumed = lsy.written

\* C30: decodeImage returns, true or false, after finitely many steps on
\* every input stream, a header with block size 0, a nonzero m flag and
\* width * height > 0 included
C30_DecodeTerminates == <>(dec.pc = "returned")

====
